---- MODULE Spec2Model ----
(***************************************************************************)
(* Entity graph fetcher (smoogly/entity_builder): the executor and batcher *)
(* of fetchEntities / fetchNodes, the stored-function cache, and the two   *)
(* helper SQL functions installed by the migration.                        *)
(*                                                                         *)
(* Strings that the code computes with (ids, table names, function names)  *)
(* are sequences of one-character strings, so that parsing, formatting,    *)
(* slicing and hashing are computed character by character.                *)
(***************************************************************************)
EXTENDS Integers, Sequences, FiniteSets, TLC

VARIABLES
    existing,    \* database: ids of the rows of the root table
    catalog,     \* database: names of the stored functions in the catalog
    isDevEnv,    \* the isDevEnv flag of the process
    pc,          \* per fetch: position in fetchEntities / fetchNodes
    entity,      \* per fetch: argument `entity`
    ids,         \* per fetch: argument `ids` (strings)
    outerTx,     \* per fetch: the supplied manager has an active transaction
    ownTx,       \* per fetch: fetchEntities called entityManager.transaction
    numericIds,  \* per fetch: ids.map(parseFloat)
    uniqIds,     \* per fetch: uniq(numericIds)
    batchNo,     \* per fetch: index of the chunk the reduce is at
    prevRes,     \* per fetch: rows accumulated by the reduce
    probeRows,   \* per fetch: rows the checker function returned
    result,      \* per fetch: value the promise resolved with
    log,         \* per fetch: onRequest calls and SQL statements, in order
    startCatalog,\* per fetch: catalog when the fetch was called
    doneBefore,  \* per fetch: fetches already settled when it was called
    schema,      \* tree: the entity metadata of the connection
    fetchNode,   \* tree: the caller's fetch tree
    queryTree,   \* tree: the query tree built from it
    aliasesBuilt,\* tree: aliases handed out to all trees built so far
    hashes,      \* tree: values hashTree returned for the fetch tree
    dbRows,      \* tree: rows the compiled query returned
    hydrated,    \* tree: the rows after hydrateResults
    step,        \* tree: position in buildQueryTree / query / hydrateResults
    tables,      \* relations: rows of the tables and of the junction table
    request,     \* relations: arguments of setRelation / removeRelation
    rpc,         \* relations: position in setRelation / removeRelation
    loaded,      \* relations: entities the call has read
    rlog,        \* relations: reads and writes sent to the database, in order
    entityMarkers, \* registry: the PropMapping object of every marked class
    propMappings,  \* registry: the PropMapping objects (forPropName -> name)
    mappedProps,   \* registry: the cache of getMappedMarkers, or null
    lookups,       \* registry: what getIdPropertyName returned, in order
    timers,      \* timers: the timers of the fetch, in order of creation
    tpc,         \* timers: position of the fetch in its pipeline
    tbatch,      \* timers: index of the batch the reduce is at
    tinput,      \* timers: the request, the registry and the transaction
    jmeta,       \* subselect: metadata and aliases of the node and its child
    jrows,       \* subselect: rows of the two tables
    jquery,      \* subselect: the join built for the child
    jresult      \* subselect: what the join gives for every row of the node

fetchVars == <<existing, catalog, isDevEnv, pc, entity, ids, outerTx, ownTx,
               numericIds, uniqIds, batchNo, prevRes, probeRows, result, log,
               startCatalog, doneBefore>>
treeVars == <<schema, fetchNode, queryTree, aliasesBuilt, hashes, dbRows,
              hydrated, step>>
relVars == <<tables, request, rpc, loaded, rlog>>
regVars == <<entityMarkers, propMappings, mappedProps, lookups>>
timerVars == <<timers, tpc, tbatch, tinput>>
joinVars == <<jmeta, jrows, jquery, jresult>>

vars == <<fetchVars, treeVars, relVars, regVars, timerVars, joinVars>>

Procs == {1, 2}

(***************************************************************************)
(* Bounds of the model.                                                    *)
(***************************************************************************)
MaxHead == 2        \* ids listed before the block of consecutive ids
MaxBlocks == 2      \* the block has k * MAX_FN_ARGUMENTS - 1 ids, k <= MaxBlocks
PadBase == 100      \* the block is PadBase + 1, PadBase + 2, ...
MaxConcLen == 2     \* length of the id lists of two concurrent fetches

(***************************************************************************)
(* Characters and strings.                                                 *)
(***************************************************************************)
Digits == <<"0", "1", "2", "3", "4", "5", "6", "7", "8", "9">>
Lower == <<"a", "b", "c", "d", "e", "f", "g", "h", "i", "j", "k", "l", "m",
           "n", "o", "p", "q", "r", "s", "t", "u", "v", "w", "x", "y", "z">>
Upper == <<"A", "B", "C", "D", "E", "F", "G", "H", "I", "J", "K", "L", "M",
           "N", "O", "P", "Q", "R", "S", "T", "U", "V", "W", "X", "Y", "Z">>

Range(s) == {s[i] : i \in DOMAIN s}

DigitChars == Range(Digits)
LowerChars == Range(Lower)
UpperChars == Range(Upper)

IsDigit(c) == c \in DigitChars
DigitVal(c) == CHOOSE d \in 0..9 : Digits[d + 1] = c

\* String(n) for a natural number n
RECURSIVE NumToString(_)
NumToString(n) ==
    IF n < 10 THEN <<Digits[n + 1]>>
    ELSE NumToString(n \div 10) \o <<Digits[(n % 10) + 1]>>

\* UTF-16 code of a character (String.prototype.charCodeAt)
CharCode(c) ==
    IF c \in DigitChars THEN 48 + DigitVal(c)
    ELSE IF c \in LowerChars THEN 96 + (CHOOSE i \in 1..26 : Lower[i] = c)
    ELSE IF c \in UpperChars THEN 64 + (CHOOSE i \in 1..26 : Upper[i] = c)
    ELSE IF c = "_" THEN 95
    ELSE IF c = ":" THEN 58
    ELSE IF c = "-" THEN 45
    ELSE IF c = "," THEN 44
    ELSE 63

\* arr.join(sep) for an array of strings
RECURSIVE Join(_, _)
Join(arr, sep) ==
    IF arr = <<>> THEN <<>>
    ELSE IF Len(arr) = 1 THEN arr[1]
    ELSE arr[1] \o sep \o Join(Tail(arr), sep)

\* parseFloat on a string of decimal digits; NaN when no digit leads it
NaN == 0 - 1
RECURSIVE ParseDigits(_, _, _)
ParseDigits(s, i, acc) ==
    IF i > Len(s) \/ ~IsDigit(s[i]) THEN acc
    ELSE ParseDigits(s, i + 1, acc * 10 + DigitVal(s[i]))
parseFloat(s) ==
    IF s = <<>> \/ ~IsDigit(s[1]) THEN NaN ELSE ParseDigits(s, 1, 0)

(***************************************************************************)
(* Values of other JavaScript types that an untyped caller can pass where  *)
(* a string is declared.  A string is a sequence of characters; any other  *)
(* value is a sequence that starts with a tag.                             *)
(***************************************************************************)
JsNull == <<"#null">>
JsUndefined == <<"#undefined">>
JsNumber(n) == <<"#number">> \o NumToString(n)
JsObject == <<"#object">>
JsTags == {"#null", "#undefined", "#number", "#object"}

\* typeof v === "string"
IsJsString(v) == v = <<>> \/ v[1] \notin JsTags

\* every value taken for a true one
IsTruthy_Always(v) == TRUE

\* the truthiness of a value: "", null, undefined and 0 are falsy
IsTruthy(v) ==
    IF IsJsString(v) THEN v # <<>>
    ELSE IF v[1] = "#number" THEN ParseDigits(Tail(v), 1, 0) # 0
    ELSE v[1] = "#object"

\* String(v), the conversion parseFloat applies to its argument
JsToString(v) ==
    IF IsJsString(v) THEN v
    ELSE IF v[1] = "#number" THEN Tail(v)
    ELSE IF v[1] = "#null" THEN <<"n", "u", "l", "l">>
    ELSE IF v[1] = "#undefined" THEN <<"u", "n", "d", "e", "f", "i", "n", "e", "d">>
    ELSE <<"[", "o", "b", "j", "e", "c", "t", " ", "O", "b", "j", "e", "c", "t", "]">>

(***************************************************************************)
(* Schema metadata of the root entities (entities without relations).      *)
(***************************************************************************)
Entities == {"TargetEntity", "TargetWithProps"}

tst_target == <<"t", "s", "t", "_", "t", "a", "r", "g", "e", "t">>

getMetadata(e) ==
    IF e = "TargetEntity"
    THEN [name |-> e, tableName |-> tst_target,
          properties |-> << <<"i", "d">> >>, relations |-> <<>>]
    ELSE [name |-> e, tableName |-> tst_target,
          properties |-> << <<"i", "d">>,
                            <<"i", "n", "t", "P", "r", "o", "p">> >>,
          relations |-> <<>>]

(***************************************************************************)
(* Query tree and its hash.                                                *)
(***************************************************************************)
\* setupAlias: the n-th alias minted for a tree
Alias(n) == <<"r", "e", "l", "_">> \o NumToString(n)

\* buildQueryTree for a root entity: the data node of the root, with one
\* child per relation of its metadata
buildQueryTree(e) ==
    [type |-> <<"d", "a", "t", "a">>, alias |-> Alias(1),
     meta |-> getMetadata(e), nested |-> <<>>]

\* String(relation.isOwning)
BoolChars(b) ==
    IF b THEN <<"t", "r", "u", "e">> ELSE <<"f", "a", "l", "s", "e">>

relationDescription(relation) ==
    Join(<< relation.propertyChars, relation.entityTableName,
            relation.inverseTableName, relation.relationType,
            BoolChars(relation.isOwning) >>, <<":">>)

\* the relations joined by the template string: Array.prototype.toString
metaDescription(meta) ==
    meta.tableName \o <<":">> \o Join(meta.properties, <<":">>) \o <<":">>
        \o Join([i \in DOMAIN meta.relations |->
                    relationDescription(meta.relations[i])], <<",">>)

\* breadthFirst: the nodes in the order of a queue that starts with the root
\* and to which every visited node appends its children
RECURSIVE breadthFirst(_)
breadthFirst(queue) ==
    IF queue = <<>> THEN <<>>
    ELSE <<Head(queue)>> \o breadthFirst(Tail(queue) \o Head(queue).nested)

HashTreeStrings(node) ==
    LET visited == breadthFirst(<<node>>)
    IN  [i \in DOMAIN visited |->
            visited[i].type \o <<"-">> \o visited[i].alias \o <<"-">>
                \o metaDescription(visited[i].meta)]

\* hashCode: Java-style polynomial string hash h = 31 * h + code kept to 32
\* bits. A 32-bit value is carried as two 16-bit halves [hi, lo].
Word(hi, lo) == [hi |-> hi, lo |-> lo]

\* (a + b) mod 2^32
Add32(a, b) ==
    LET lo == a.lo + b.lo
    IN  Word((a.hi + b.hi + (lo \div 65536)) % 65536, lo % 65536)

\* (x * y) mod 2^16 for 16-bit x and y
MulLow16(x, y) == (((x * (y \div 256)) % 256) * 256 + x * (y % 256)) % 65536

\* (a * b) mod 2^32
Mul32(a, b) ==
    LET p0 == a.lo * (b.lo % 256)
        p1 == a.lo * (b.lo \div 256)
    IN  Add32(Add32(Word(p0 \div 65536, p0 % 65536),
                    Word((p1 \div 256) % 65536, (p1 % 256) * 256)),
              Word((MulLow16(a.hi, b.lo) + MulLow16(a.lo, b.hi)) % 65536, 0))

\* 31^k mod 2^32; the two factors are evaluated first, then multiplied
RECURSIVE Pow31(_)
Pow31(k) ==
    IF k = 0 THEN Word(0, 1)
    ELSE IF k = 1 THEN Word(0, 31)
    ELSE LET halves == <<Pow31(k \div 2), Pow31(k - (k \div 2))>>
         IN  IF halves # <<>> THEN Mul32(halves[1], halves[2]) ELSE Word(0, 1)

\* the loop h = 31 * h + code over the characters from..to of s, from h = 0.
\* The loop over a string is the loop over its first half, times 31 to the
\* length of the second half, plus the loop over the second half; the
\* halves are evaluated first, then combined.
RECURSIVE HashRange(_, _, _)
HashRange(s, from, to) ==
    IF from > to THEN Word(0, 0)
    ELSE IF from = to THEN Word(0, CharCode(s[from]))
    ELSE LET mid == (from + to) \div 2
             halves == <<HashRange(s, from, mid), HashRange(s, mid + 1, to),
                         Pow31(to - mid)>>
         IN  IF halves # <<>>
             THEN Add32(Mul32(halves[1], halves[3]), halves[2])
             ELSE Word(0, 0)
Hash32(s) == HashRange(s, 1, Len(s))

\* String(Math.abs(h)) of the signed 32-bit value h = [hi, lo]
AbsString(h) ==
    IF h.hi < 32768 THEN NumToString(h.hi * 65536 + h.lo)
    ELSE IF h.hi = 32768 /\ h.lo = 0
         THEN <<"2", "1", "4", "7", "4", "8", "3", "6", "4", "8">>
         ELSE NumToString((65535 - h.hi) * 65536 + (65536 - h.lo))

hashCode(s) == AbsString(Hash32(s))

\* String(n).replace(/[^\d]/g, "0")
ReplaceNonDigits(s) == [i \in DOMAIN s |-> IF IsDigit(s[i]) THEN s[i] ELSE "0"]

hashTree(rootNode) ==
    ReplaceNonDigits(hashCode(Join(HashTreeStrings(rootNode), <<":">>)))

(***************************************************************************)
(* Names of the stored functions and of the helper SQL functions.          *)
(***************************************************************************)
MAX_FN_ARGUMENTS == 99
MAX_FN_NAME_LENGTH == 63
ENTITY_BUILDER_VERSION == <<"1">>

\* one checker for every number of arguments
checkerFnName_Fixed(numArgs) ==
    <<"e", "x", "e", "c", "u", "t", "e", "_", "i", "f", "_",
      "e", "x", "i", "s", "t", "s", "_", "n">> \o NumToString(MAX_FN_ARGUMENTS)

checkerFnName(numArgs) ==
    <<"e", "x", "e", "c", "u", "t", "e", "_", "i", "f", "_",
      "e", "x", "i", "s", "t", "s", "_", "n">> \o NumToString(numArgs)

safeCreateFnName ==
    <<"s", "a", "f", "e", "_", "c", "r", "e", "a", "t", "e", "_", "f", "n">>

\* s.slice(0, n)
Slice(s, n) == SubSeq(s, 1, IF Len(s) < n THEN Len(s) ELSE n)

\* the name without the number of arguments
storedFnName_NoArity(rootNode, idsBatch) ==
    <<"b", "u", "i", "l", "d", "e", "r", "_">> \o ENTITY_BUILDER_VERSION \o <<"_">>
        \o Slice(rootNode.meta.tableName, 15) \o <<"_">>
        \o hashTree(rootNode)

storedFnName(rootNode, idsBatch) ==
    <<"b", "u", "i", "l", "d", "e", "r", "_">> \o ENTITY_BUILDER_VERSION \o <<"_">>
        \o Slice(rootNode.meta.tableName, 15) \o <<"_">>
        \o hashTree(rootNode) \o <<"_", "n">> \o NumToString(Len(idsBatch))

\* the development-mode check of storedFnName
storedFnNameThrows(rootNode, idsBatch) ==
    isDevEnv /\ Len(storedFnName(rootNode, idsBatch)) > MAX_FN_NAME_LENGTH

(***************************************************************************)
(* Array helpers of lodash and JavaScript.                                 *)
(***************************************************************************)
Reverse(s) == [i \in DOMAIN s |-> s[Len(s) + 1 - i]]

\* lodash uniq: the first occurrence of every value, in order. Computed by
\* halves: the values of the second half that the first half lacks follow
\* the first half.
RECURSIVE UniqHalves(_)
UniqHalves(s) ==
    IF Len(s) <= 1 THEN s
    ELSE LET h == Len(s) \div 2
             a == UniqHalves(SubSeq(s, 1, h))
             b == UniqHalves(SubSeq(s, h + 1, Len(s)))
             seen == Range(a)
         IN  a \o SelectSeq(b, LAMBDA x : x \notin seen)
uniq(s) ==
    IF Cardinality(Range(s)) = Len(s) THEN s ELSE UniqHalves(s)

\* lodash chunk: the k-th of the consecutive slices of at most size elements
NumChunks(s, size) == (Len(s) + size - 1) \div size
\* the slices numbered from the end of the list
Chunk_Backwards(s, size, k) ==
    SubSeq(s, (NumChunks(s, size) - k) * size + 1,
           IF (NumChunks(s, size) - k + 1) * size < Len(s)
           THEN (NumChunks(s, size) - k + 1) * size ELSE Len(s))
Chunk(s, size, k) ==
    SubSeq(s, (k - 1) * size + 1, IF k * size < Len(s) THEN k * size ELSE Len(s))

\* Array.prototype.indexOf: zero-based index of the first occurrence, or -1
indexOf(s, v) ==
    LET at == {i \in DOMAIN s : s[i] = v}
    IN  IF at = {} THEN 0 - 1 ELSE (CHOOSE i \in at : \A j \in at : i <= j) - 1

\* stable ascending sort of a sequence of [key, val] by key
RECURSIVE StableSort(_)
StableSort(s) ==
    IF Len(s) <= 1 THEN s
    ELSE LET pivot == s[(Len(s) + 1) \div 2].key
         IN  StableSort(SelectSeq(s, LAMBDA x : x.key < pivot))
                 \o SelectSeq(s, LAMBDA x : x.key = pivot)
                 \o StableSort(SelectSeq(s, LAMBDA x : x.key > pivot))

\* the rows left in the order the batches returned them
sortByIndexOf_Unsorted(fetched, requested) == fetched

\* lodash sortBy(fetched, e => numericIds.indexOf(e.id)): stable, ascending
sortByIndexOf(fetched, requested) ==
    LET keyed == [i \in DOMAIN fetched |->
                    [key |-> indexOf(requested, fetched[i].id), val |-> fetched[i]]]
        sorted == StableSort(keyed)
    IN  [i \in DOMAIN sorted |-> sorted[i].val]

(***************************************************************************)
(* The database: the root table, the function catalog, the helper          *)
(* functions of the migration.                                             *)
(***************************************************************************)
JsonNull == [null |-> TRUE]
IsNull(v) == DOMAIN v = {"null"}

\* row_to_json of the compiled query's row for the root row `id`
Row(e, id) ==
    IF e = "TargetEntity" THEN [id |-> id] ELSE [id |-> id, intProp |-> 99999]

\* The orders in which the server may return the rows of one statement
DbOrders == {"args", "reverse"}

\* a query whose root restriction is lost: a row for every argument
SelectRows_AnyId(e, args, order) ==
    LET hit  == uniq(args)
        rows == [k \in DOMAIN hit |-> [res |-> Row(e, hit[k])]]
    IN  IF order = "args" THEN rows ELSE Reverse(rows)

\* select row_to_json(rows) as res from (<compiled query>) rows, with the
\* root restricted by WHERE id IN (args): one row per existing id
SelectRows(e, args, order) ==
    LET hit  == SelectSeq(uniq(args), LAMBDA i : i \in existing)
        rows == [k \in DOMAIN hit |-> [res |-> Row(e, hit[k])]]
    IN  IF order = "args" THEN rows ELSE Reverse(rows)

\* A stored function of the catalog: CREATE FUNCTION name (nargs integers)
\* whose body is the compiled query of the tree rooted at `body`
StoredFn(name, nargs, body) == [name |-> name, nargs |-> nargs, body |-> body]

Lookup(cat, name, nargs) == {f \in cat : f.name = name /\ f.nargs = nargs}

\* execute_if_exists_n<N>(fn, a1, ..., aN): the rows of fn(a1, ..., aN), or
\* one NULL row when undefined_function is raised
executeIfExists(cat, name, args, order) ==
    IF Lookup(cat, name, Len(args)) = {}
    THEN << [res |-> JsonNull] >>
    ELSE SelectRows((CHOOSE f \in Lookup(cat, name, Len(args)) : TRUE).body, args, order)

\* the CREATE FUNCTION is not executed
safeCreateFn_Skipped(cat, fn) == [catalog |-> cat, raised |-> FALSE, swallowed |-> FALSE]

\* duplicate_function is not trapped
safeCreateFn_Untrapped(cat, fn) ==
    IF Lookup(cat, fn.name, fn.nargs) # {}
    THEN [catalog |-> cat, raised |-> TRUE, swallowed |-> FALSE]
    ELSE [catalog |-> cat \cup {fn}, raised |-> FALSE, swallowed |-> FALSE]

\* safe_create_fn(sql): EXECUTE the CREATE FUNCTION; duplicate_function and
\* unique_violation are trapped and the call returns normally
safeCreateFn(cat, fn) ==
    IF Lookup(cat, fn.name, fn.nargs) # {}
    THEN [catalog |-> cat, raised |-> FALSE, swallowed |-> TRUE]
    ELSE [catalog |-> cat \cup {fn}, raised |-> FALSE, swallowed |-> FALSE]

(***************************************************************************)
(* Inputs.                                                                 *)
(***************************************************************************)
SeqsUpTo(S, n) == UNION {[1..k -> S] : k \in 0..n}

\* id strings naming the rows 1 and 2; "01" names row 1 as well
SmallStrs == { <<"1">>, <<"2">>, <<"0", "1">> }

\* a block of n consecutive ids
Pad(n) == [i \in 1..n |-> NumToString(PadBase + i)]
PadLens == {0} \cup {k * MAX_FN_ARGUMENTS - 1 : k \in 1..MaxBlocks}

\* ids repeated after the block
Tails == { <<>>, << <<"2">> >>, << <<"0", "1">> >> }

IdLists ==
    {h \o Pad(n) \o t : h \in SeqsUpTo(SmallStrs, MaxHead), n \in PadLens,
                        t \in Tails}

ConcIdLists == SeqsUpTo({ <<"1">>, <<"2">> }, MaxConcLen) \ { <<>> }

\* one id more than a stored function takes
LargeIdList == Pad(MAX_FN_ARGUMENTS + 1)

\* contents of the root table: row 1 and the even rows of the block; row 2
\* and the odd rows of the block do not exist
PadIds == {PadBase + i : i \in 1..(MaxBlocks * MAX_FN_ARGUMENTS)}
InitialRows == {1} \cup {i \in PadIds : i % 2 = 0}

\* catalogs left by earlier fetches: none, or the functions of TargetEntity
\* for 1, 2 and MAX_FN_ARGUMENTS ids
WarmCatalog ==
    {StoredFn(storedFnName(buildQueryTree("TargetEntity"), [i \in 1..k |-> 0]),
              k, "TargetEntity") : k \in {1, 2, MAX_FN_ARGUMENTS}}
Catalogs == { {}, WarmCatalog }

(***************************************************************************)
(* fetchEntities and fetchNodes.                                           *)
(***************************************************************************)
Settled == {"done", "threw", "rejected"}

\* an entry of the log: an onRequest call or an SQL statement; `via` is the
\* helper function it goes through, `note` what the database answered
Ev(kind, fn, args, via, note) ==
    [kind |-> kind, fn |-> fn, args |-> args, via |-> via, note |-> note]

\* the early return lost
IsEmptyInput_Never(idList) == FALSE

\* ids.length === 0
IsEmptyInput(idList) == Len(idList) = 0

\* the comparison off by one
needsTransaction_AtLimit(uniqs, active) == Len(uniqs) >= MAX_FN_ARGUMENTS /\ ~active

\* uniqIds.length > MAX_FN_ARGUMENTS && !(the manager has an active transaction)
needsTransaction(uniqs, active) == Len(uniqs) > MAX_FN_ARGUMENTS /\ ~active

\* the statement issued before the hook is called
onRequestThenQuery_QueryFirst(statement) ==
    << statement, Ev("onRequest", <<>>, <<>>, <<>>, "") >>

\* onRequset(); ...; return entityManager.query(<statement>)
onRequestThenQuery(statement) == << Ev("onRequest", <<>>, <<>>, <<>>, ""), statement >>

\* the predicate of ids.find(id => !id || typeof id !== "string")
IsIncorrectId(id) == ~IsTruthy(id) \/ ~IsJsString(id)

\* ids.find(...): the first element the predicate holds of, or undefined
findIncorrectId(idList) ==
    IF \E i \in DOMAIN idList : IsIncorrectId(idList[i])
    THEN idList[CHOOSE i \in DOMAIN idList :
                    /\ IsIncorrectId(idList[i])
                    /\ \A j \in 1..(i - 1) : ~IsIncorrectId(idList[j])]
    ELSE JsUndefined

\* the transaction check lost
isTransactionActive_Never(p) == FALSE

\* only the caller's transaction is seen, not the one fetchEntities opened
isTransactionActive_OuterOnly(p) == outerTx[p]

\* entityManager.queryRunner && entityManager.queryRunner.isTransactionActive
\* of the manager fetchNodes runs on: the supplied one, or the one that
\* entityManager.transaction hands to execute
isTransactionActive(p) == outerTx[p] \/ ownTx[p]

\* idsBatch.join(",") writes a NaN id as the bare word NaN, which the database
\* reads as a column name: the statement fails
HasNaN(idsBatch) == \E i \in DOMAIN idsBatch : idsBatch[i] = NaN

rootNodeOf(p) == buildQueryTree(entity[p])
idsBatchOf(p) == Chunk(uniqIds[p], MAX_FN_ARGUMENTS, batchNo[p])

\* the checker's answer when the stored function does not exist
IsMissingResponse(rows) == Len(rows) = 1 /\ IsNull(rows[1].res)

\* driver.prepareHydratedValue for an integer column
prepareHydratedValue(value, prop) == value

\* hydrateResults for a node without relations: every own column of every
\* row goes through the driver's hook
hydrateResults(entities) ==
    [i \in DOMAIN entities |->
        [prop \in DOMAIN entities[i] |-> prepareHydratedValue(entities[i][prop], prop)]]

\* fetchEntities up to the first suspension: validation, parsing,
\* deduplication and the choice between transaction(execute) and execute
FetchEntities(p) ==
    /\ pc[p] = "idle"
    /\ startCatalog' = [startCatalog EXCEPT ![p] = catalog]
    /\ doneBefore' = [doneBefore EXCEPT ![p] = {q \in Procs : pc[q] \in Settled}]
    /\ IF IsEmptyInput(ids[p])
       THEN /\ pc' = [pc EXCEPT ![p] = "done"]
            /\ result' = [result EXCEPT ![p] = <<>>]
            /\ UNCHANGED <<numericIds, uniqIds, ownTx>>
       ELSE IF isDevEnv /\ IsTruthy(findIncorrectId(ids[p]))
       THEN /\ pc' = [pc EXCEPT ![p] = "threw"]
            /\ UNCHANGED <<result, numericIds, uniqIds, ownTx>>
       ELSE LET nums == [i \in DOMAIN ids[p] |-> parseFloat(JsToString(ids[p][i]))]
                uniqs == uniq(nums)
                opens == needsTransaction(uniqs, outerTx[p])
            IN  /\ numericIds' = [numericIds EXCEPT ![p] = nums]
                /\ uniqIds' = [uniqIds EXCEPT ![p] = uniqs]
                /\ ownTx' = [ownTx EXCEPT ![p] = opens]
                /\ pc' = [pc EXCEPT ![p] =
                            IF opens THEN "begin"
                            ELSE IF NumChunks(uniqs, MAX_FN_ARGUMENTS) = 0 THEN "fetched"
                            ELSE "batch"]
                /\ UNCHANGED result
    /\ UNCHANGED <<existing, catalog, isDevEnv, entity, ids, outerTx, batchNo,
                   prevRes, probeRows, log>>
    /\ UNCHANGED <<treeVars, relVars, regVars, timerVars, joinVars>>

\* entityManager.transaction(execute): START TRANSACTION, then execute
BeginTransaction(p) ==
    /\ pc[p] = "begin"
    /\ log' = [log EXCEPT ![p] = Append(@, Ev("begin", <<>>, <<>>, <<>>, ""))]
    /\ pc' = [pc EXCEPT ![p] =
                IF NumChunks(uniqIds[p], MAX_FN_ARGUMENTS) = 0 THEN "fetched" ELSE "batch"]
    /\ UNCHANGED <<existing, catalog, isDevEnv, entity, ids, outerTx, ownTx,
                   numericIds, uniqIds, batchNo, prevRes, probeRows, result,
                   startCatalog, doneBefore>>
    /\ UNCHANGED <<treeVars, relVars, regVars, timerVars, joinVars>>

\* one step of the reduce: onRequest(), then the checker function is called
Probe(p) ==
    /\ pc[p] = "batch"
    /\ LET idsBatch == idsBatchOf(p)
           storedFn == storedFnName(rootNodeOf(p), idsBatch)
           checker == checkerFnName(Len(idsBatch))
       IN  IF storedFnNameThrows(rootNodeOf(p), idsBatch)
           THEN /\ log' = [log EXCEPT ![p] = Append(@, Ev("onRequest", <<>>, <<>>, <<>>, ""))]
                /\ pc' = [pc EXCEPT ![p] = "rejected"]
                /\ UNCHANGED probeRows
           ELSE IF HasNaN(idsBatch)
           THEN /\ log' = [log EXCEPT ![p] =
                             @ \o onRequestThenQuery(
                                     Ev("probe", storedFn, idsBatch, checker, "error"))]
                /\ pc' = [pc EXCEPT ![p] = "rejected"]
                /\ UNCHANGED probeRows
           ELSE \E order \in DbOrders :
                LET rows == executeIfExists(catalog, storedFn, idsBatch, order)
                IN  /\ probeRows' = [probeRows EXCEPT ![p] = rows]
                    /\ log' = [log EXCEPT ![p] =
                                  @ \o onRequestThenQuery(
                                          Ev("probe", storedFn, idsBatch, checker,
                                             IF IsMissingResponse(rows)
                                             THEN "missing" ELSE "found"))]
                    /\ pc' = [pc EXCEPT ![p] = "probed"]
    /\ UNCHANGED <<existing, catalog, isDevEnv, entity, ids, outerTx, ownTx,
                   numericIds, uniqIds, batchNo, prevRes, result,
                   startCatalog, doneBefore>>
    /\ UNCHANGED <<treeVars, relVars, regVars, timerVars, joinVars>>

\* .then(rows => [...prevRes, ...rows.map(r => r.res)]) and the next step of
\* the reduce, or its end
Concat(p, rows) ==
    /\ prevRes' = [prevRes EXCEPT ![p] = @ \o [i \in DOMAIN rows |-> rows[i].res]]
    /\ batchNo' = [batchNo EXCEPT ![p] = @ + 1]
    /\ pc' = [pc EXCEPT ![p] =
                IF batchNo[p] < NumChunks(uniqIds[p], MAX_FN_ARGUMENTS)
                THEN "batch" ELSE "fetched"]
    /\ probeRows' = [probeRows EXCEPT ![p] = <<>>]

\* the checker returned the stored function's rows: return rows
UseProbeRows(p) ==
    /\ pc[p] = "probed"
    /\ ~IsMissingResponse(probeRows[p])
    /\ Concat(p, probeRows[p])
    /\ UNCHANGED <<existing, catalog, isDevEnv, entity, ids, outerTx, ownTx,
                   numericIds, uniqIds, result, log, startCatalog, doneBefore>>
    /\ UNCHANGED <<treeVars, relVars, regVars, timerVars, joinVars>>

\* the function is missing and a transaction is active: the compiled query
\* is run with the ids of the batch embedded
RawQuery(p) ==
    /\ pc[p] = "probed"
    /\ IsMissingResponse(probeRows[p])
    /\ isTransactionActive(p)
    /\ \E order \in DbOrders :
          Concat(p, SelectRows(entity[p], idsBatchOf(p), order))
    /\ log' = [log EXCEPT ![p] = Append(@, Ev("raw", <<>>, idsBatchOf(p), <<>>, ""))]
    /\ UNCHANGED <<existing, catalog, isDevEnv, entity, ids, outerTx, ownTx,
                   numericIds, uniqIds, result, startCatalog, doneBefore>>
    /\ UNCHANGED <<treeVars, relVars, regVars, timerVars, joinVars>>

\* the function is missing and no transaction is active: createStoredFn
CreateStoredFn(p) ==
    /\ pc[p] = "probed"
    /\ IsMissingResponse(probeRows[p])
    /\ ~isTransactionActive(p)
    /\ LET fnName == storedFnName(rootNodeOf(p), idsBatchOf(p))
           made == safeCreateFn(catalog, StoredFn(fnName, Len(idsBatchOf(p)), entity[p]))
       IN  /\ catalog' = made.catalog
           /\ log' = [log EXCEPT ![p] =
                         Append(@, Ev("create", fnName, idsBatchOf(p), safeCreateFnName,
                                      IF made.swallowed THEN "swallowed" ELSE "created"))]
           /\ pc' = [pc EXCEPT ![p] = IF made.raised THEN "rejected" ELSE "created"]
    /\ UNCHANGED <<existing, isDevEnv, entity, ids, outerTx, ownTx, numericIds,
                   uniqIds, batchNo, prevRes, probeRows, result,
                   startCatalog, doneBefore>>
    /\ UNCHANGED <<treeVars, relVars, regVars, timerVars, joinVars>>

\* .then(() => entityManager.query(`SELECT res FROM ${storedFn}(ids) res`))
CallStoredFn(p) ==
    /\ pc[p] = "created"
    /\ LET fnName == storedFnName(rootNodeOf(p), idsBatchOf(p))
           found == Lookup(catalog, fnName, Len(idsBatchOf(p)))
       IN  /\ log' = [log EXCEPT ![p] = Append(@, Ev("call", fnName, idsBatchOf(p), <<>>, ""))]
           /\ IF found = {}
              THEN /\ pc' = [pc EXCEPT ![p] = "rejected"]
                   /\ UNCHANGED <<prevRes, batchNo, probeRows>>
              ELSE \E order \in DbOrders :
                      Concat(p, SelectRows((CHOOSE f \in found : TRUE).body,
                                           idsBatchOf(p), order))
    /\ UNCHANGED <<existing, catalog, isDevEnv, entity, ids, outerTx, ownTx,
                   numericIds, uniqIds, result, startCatalog, doneBefore>>
    /\ UNCHANGED <<treeVars, relVars, regVars, timerVars, joinVars>>

\* the reduce is over: hydrate, then sortBy(fetched, indexOf) in execute
Finish(p) ==
    /\ pc[p] = "fetched"
    /\ result' = [result EXCEPT ![p] =
                     sortByIndexOf(hydrateResults(prevRes[p]), numericIds[p])]
    /\ pc' = [pc EXCEPT ![p] = IF ownTx[p] THEN "commit" ELSE "done"]
    /\ UNCHANGED <<existing, catalog, isDevEnv, entity, ids, outerTx, ownTx,
                   numericIds, uniqIds, batchNo, prevRes, probeRows, log,
                   startCatalog, doneBefore>>
    /\ UNCHANGED <<treeVars, relVars, regVars, timerVars, joinVars>>

\* entityManager.transaction: execute resolved, COMMIT
Commit(p) ==
    /\ pc[p] = "commit"
    /\ log' = [log EXCEPT ![p] = Append(@, Ev("commit", <<>>, <<>>, <<>>, ""))]
    /\ pc' = [pc EXCEPT ![p] = "done"]
    /\ UNCHANGED <<existing, catalog, isDevEnv, entity, ids, outerTx, ownTx,
                   numericIds, uniqIds, batchNo, prevRes, probeRows, result,
                   startCatalog, doneBefore>>
    /\ UNCHANGED <<treeVars, relVars, regVars, timerVars, joinVars>>

Next ==
    \E p \in Procs :
        \/ FetchEntities(p)
        \/ BeginTransaction(p)
        \/ Probe(p)
        \/ UseProbeRows(p)
        \/ RawQuery(p)
        \/ CreateStoredFn(p)
        \/ CallStoredFn(p)
        \/ Finish(p)
        \/ Commit(p)

InitCommon ==
    /\ ownTx = [p \in Procs |-> FALSE]
    /\ numericIds = [p \in Procs |-> <<>>]
    /\ uniqIds = [p \in Procs |-> <<>>]
    /\ batchNo = [p \in Procs |-> 1]
    /\ prevRes = [p \in Procs |-> <<>>]
    /\ probeRows = [p \in Procs |-> <<>>]
    /\ result = [p \in Procs |-> <<>>]
    /\ log = [p \in Procs |-> <<>>]
    /\ startCatalog = [p \in Procs |-> {}]
    /\ doneBefore = [p \in Procs |-> {}]

\* no tree is being built and no relation is being changed
TreeIdle ==
    /\ schema = <<>>
    /\ fetchNode = <<>>
    /\ queryTree = <<>>
    /\ aliasesBuilt = 0
    /\ hashes = <<>>
    /\ dbRows = <<>>
    /\ hydrated = <<>>
    /\ step = "off"
RelIdle ==
    /\ tables = <<>>
    /\ request = <<>>
    /\ rpc = "off"
    /\ loaded = <<>>
    /\ rlog = <<>>
\* no class is marked and no timer was created
RegIdle ==
    /\ entityMarkers = <<>>
    /\ propMappings = <<>>
    /\ mappedProps = <<>>
    /\ lookups = <<>>
TimerIdle ==
    /\ timers = <<>>
    /\ tpc = "off"
    /\ tbatch = 0
    /\ tinput = <<>>
\* no join was built
JoinIdle ==
    /\ jmeta = <<>>
    /\ jrows = <<>>
    /\ jquery = <<>>
    /\ jresult = <<>>

\* one fetch
Init ==
    /\ InitCommon
    /\ TreeIdle
    /\ RelIdle
    /\ RegIdle
    /\ TimerIdle
    /\ JoinIdle
    /\ existing = InitialRows
    /\ isDevEnv = TRUE
    /\ catalog \in Catalogs
    /\ pc = [p \in Procs |-> IF p = 1 THEN "idle" ELSE "off"]
    /\ \E l \in IdLists : ids = [p \in Procs |-> IF p = 1 THEN l ELSE <<>>]
    /\ entity = [p \in Procs |-> "TargetEntity"]
    /\ \E t \in BOOLEAN : outerTx = [p \in Procs |-> p = 1 /\ t]

Spec == Init /\ [][Next]_vars

\* two fetches on a freshly migrated database
InitConc ==
    /\ InitCommon
    /\ TreeIdle
    /\ RelIdle
    /\ RegIdle
    /\ TimerIdle
    /\ JoinIdle
    /\ existing = InitialRows
    /\ isDevEnv = TRUE
    /\ catalog = {}
    /\ pc = [p \in Procs |-> "idle"]
    /\ \E l1 \in ConcIdLists \cup {LargeIdList}, l2 \in ConcIdLists :
           ids = [p \in Procs |-> IF p = 1 THEN l1 ELSE l2]
    /\ entity \in [Procs -> Entities]
    /\ \E tx \in BOOLEAN : outerTx = [p \in Procs |-> p = 1 /\ tx]

SpecConc == InitConc /\ [][Next]_vars

\* id lists of an untyped caller: strings, empty strings and values of other
\* types, in development and in production
MaxDevLen == 2
DevIds == { <<"1">>, <<>>, JsNull, JsUndefined, JsNumber(0), JsNumber(1), JsObject }
DevIdLists == (SeqsUpTo(DevIds, MaxDevLen) \ { <<>> }) \cup {LargeIdList}

\* one fetch by an untyped caller
InitDev ==
    /\ InitCommon
    /\ TreeIdle
    /\ RelIdle
    /\ RegIdle
    /\ TimerIdle
    /\ JoinIdle
    /\ existing = InitialRows
    /\ isDevEnv \in BOOLEAN
    /\ catalog \in Catalogs
    /\ pc = [p \in Procs |-> IF p = 1 THEN "idle" ELSE "off"]
    /\ \E l \in DevIdLists : ids = [p \in Procs |-> IF p = 1 THEN l ELSE <<>>]
    /\ entity = [p \in Procs |-> "TargetEntity"]
    /\ \E t \in BOOLEAN : outerTx = [p \in Procs |-> p = 1 /\ t]

SpecDev == InitDev /\ [][Next]_vars

(***************************************************************************)
(* Properties.                                                             *)
(***************************************************************************)
Called(p) == pc[p] \notin {"idle", "off"}

\* the ids a fetch was asked for, as the numbers its strings denote
Requested(p) == [k \in DOMAIN ids[p] |-> parseFloat(ids[p][k])]
ResultIds(p) == [i \in DOMAIN result[p] |-> result[p][i].id]

\* the distinct values of nums in the order of their first occurrences: those
\* of the first half, then those of the second half not among them
RECURSIVE FirstOccurrences(_)
FirstOccurrences(nums) ==
    IF Len(nums) <= 1 THEN nums
    ELSE LET mid == Len(nums) \div 2
             front == FirstOccurrences(SubSeq(nums, 1, mid))
             back == FirstOccurrences(SubSeq(nums, mid + 1, Len(nums)))
             inFront == Range(front)
         IN  front \o SelectSeq(back, LAMBDA v : v \notin inFront)

CeilDiv(a, b) == (a + b - 1) \div b

Kinds(l) == [i \in DOMAIN l |-> l[i].kind]
Count(l, kind) == Cardinality({i \in DOMAIN l : l[i].kind = kind})

\* C1: the rows of a resolved fetch are ordered by the first occurrence of
\* their id in the requested list, and every requested id that exists has
\* exactly one row, however often it is requested and however many batches
\* the fetch took.
C1_OrderOfFirstOccurrence ==
    \A p \in Procs :
        pc[p] = "done" =>
            ResultIds(p) =
                SelectSeq(FirstOccurrences(Requested(p)), LAMBDA v : v \in existing)

\* a fetch in three batches whose list repeats an id across batches and
\* whose rows came back in another order than the requested one
C1_Witness ==
    /\ pc[1] = "done"
    /\ Count(log[1], "onRequest") = 3
    /\ Len(ids[1]) > Cardinality(Range(Requested(1)))
    /\ Len(result[1]) > 2
    /\ result[1] # prevRes[1]
    /\ Requested(1)[1] = Requested(1)[Len(ids[1])]

\* C2: a resolved fetch has at most as many rows as distinct requested ids,
\* every row's id was requested and exists in the table, and a requested id
\* without a row in the table makes no fetch fail.
C2_RowsAreRequestedAndExist ==
    \A p \in Procs :
        /\ pc[p] \notin {"threw", "rejected"}
        /\ pc[p] = "done" =>
              LET asked == Range(Requested(p))
              IN  /\ Len(result[p]) <= Cardinality(asked)
                  /\ \A i \in DOMAIN result[p] : result[p][i].id \in asked \cap existing

\* a resolved fetch that asked for a row that exists and one that does not
C2_Witness ==
    /\ pc[1] = "done"
    /\ Range(Requested(1)) \ existing # {}
    /\ Len(result[1]) > 0
    /\ Len(result[1]) < Cardinality(Range(Requested(1)))

\* C3: a fetch of an empty id list is resolved with the empty array by the
\* call itself: no onRequest, no SQL statement, no transaction, and the
\* catalog is the one the call found.
C3_EmptyInput ==
    \A p \in Procs :
        (Called(p) /\ ids[p] = <<>>) =>
            /\ pc[p] = "done"
            /\ result[p] = <<>>
            /\ log[p] = <<>>
            /\ ~ownTx[p]
            /\ catalog = startCatalog[p]

C3_Witness == pc[1] = "done" /\ ids[1] = <<>> /\ catalog # {}

Statements == {"probe", "raw", "create", "call"}
DistinctRequested(p) == Cardinality(Range(Requested(p)))

\* C4: onRequest is invoked once for each batch of at most 99 ids, before
\* any SQL statement of that batch, so a resolved fetch of N distinct ids has
\* invoked it ceil(N / 99) times.
C4_OnRequestPerBatch ==
    \A p \in Procs :
        LET l == log[p]
        IN  /\ \A i \in DOMAIN l :
                  /\ l[i].kind \in Statements => Len(l[i].args) \in 1..MAX_FN_ARGUMENTS
                  /\ l[i].kind = "probe" => i > 1 /\ l[i - 1].kind = "onRequest"
                  /\ l[i].kind \in {"raw", "create"} =>
                        i > 1 /\ l[i - 1].kind = "probe" /\ l[i - 1].args = l[i].args
                  /\ l[i].kind = "call" =>
                        i > 1 /\ l[i - 1].kind = "create" /\ l[i - 1].args = l[i].args
                  /\ (l[i].kind = "onRequest" /\ i < Len(l)) => l[i + 1].kind = "probe"
                  /\ l[i].kind = "probe" =>
                        \A j \in DOMAIN l :
                            (j # i /\ l[j].kind = "probe") =>
                                Range(l[j].args) \cap Range(l[i].args) = {}
            /\ (pc[p] = "done" /\ ids[p] # <<>>) =>
                  Count(l, "onRequest") = CeilDiv(DistinctRequested(p), MAX_FN_ARGUMENTS)

\* a resolved fetch of three batches, the last one answered by the raw query
C4_Witness ==
    /\ pc[1] = "done"
    /\ Count(log[1], "onRequest") = 3
    /\ Count(log[1], "raw") > 0
    /\ DistinctRequested(1) > 2 * MAX_FN_ARGUMENTS

\* C5: fetchEntities opens a transaction exactly when there are more than 99
\* distinct ids and the supplied manager has no active transaction; it opens
\* at most one, and none otherwise.
C5_TransactionIffLarge ==
    \A p \in Procs :
        /\ Called(p) =>
              ownTx[p] = (DistinctRequested(p) > MAX_FN_ARGUMENTS /\ ~outerTx[p])
        /\ Count(log[p], "begin") =
              (IF ownTx[p] /\ pc[p] # "begin" THEN 1 ELSE 0)
        /\ Count(log[p], "commit") = (IF ownTx[p] /\ pc[p] = "done" THEN 1 ELSE 0)

\* a resolved fetch of 100 distinct ids that opened its own transaction
C5_Witness ==
    /\ pc[1] = "done"
    /\ ownTx[1]
    /\ DistinctRequested(1) = MAX_FN_ARGUMENTS + 1

\* C6: on a manager with an active outer transaction a fetch never calls
\* safe_create_fn nor the stored function directly; a probe that reports the
\* function missing is followed by the raw query with the ids of the batch;
\* and the catalog stays the one the call found.
C6_NoCreateInOuterTransaction ==
    \A p \in Procs :
        outerTx[p] =>
            LET l == log[p]
            IN  /\ \A i \in DOMAIN l :
                      /\ l[i].kind \notin {"create", "call", "begin"}
                      /\ (l[i].kind = "probe" /\ l[i].note = "missing") =>
                            IF i < Len(l)
                            THEN l[i + 1].kind = "raw" /\ l[i + 1].args = l[i].args
                            ELSE pc[p] = "probed"
                /\ Called(p) => catalog = startCatalog[p]

\* a resolved fetch in an outer transaction that found a function missing
C6_Witness ==
    /\ pc[1] = "done"
    /\ outerTx[1]
    /\ Count(log[1], "raw") > 0
    /\ Len(result[1]) > 0

\* C7: with no transaction active, a probe that reports the function missing
\* is followed by exactly one safe_create_fn call for that function and then,
\* once the function is in the catalog, by one direct call of it with the ids
\* of the batch, whose rows are the result of the batch.
C7_CreateThenCall ==
    \A p \in Procs :
        (~outerTx[p] /\ ~ownTx[p]) =>
            LET l == log[p]
            IN  /\ pc[p] # "rejected"
                /\ \A i \in DOMAIN l :
                      (l[i].kind = "probe" /\ l[i].note = "missing") =>
                          /\ IF i < Len(l)
                             THEN /\ l[i + 1].kind = "create"
                                  /\ l[i + 1].via = safeCreateFnName
                                  /\ l[i + 1].fn = l[i].fn
                             ELSE pc[p] = "probed"
                          /\ IF i + 1 < Len(l)
                             THEN /\ l[i + 2].kind = "call"
                                  /\ l[i + 2].fn = l[i].fn
                                  /\ l[i + 2].args = l[i].args
                             ELSE i + 1 = Len(l) =>
                                    /\ pc[p] = "created"
                                    /\ Lookup(catalog, l[i].fn, Len(l[i].args)) # {}
                          /\ i + 2 < Len(l) => l[i + 3].kind = "onRequest"
                          /\ i + 2 = Len(l) =>
                                /\ pc[p] \in {"fetched", "done"}
                                /\ Len(prevRes[p]) =
                                       Cardinality(Range(l[i].args) \cap existing)
                                /\ \A k \in DOMAIN prevRes[p] :
                                       prevRes[p][k].id \in Range(l[i].args) \cap existing

\* a resolved fetch outside any transaction that created its function
C7_Witness ==
    /\ pc[1] = "done"
    /\ ~outerTx[1] /\ ~ownTx[1]
    /\ Kinds(log[1]) = <<"onRequest", "probe", "create", "call">>
    /\ Len(result[1]) > 1

NoTransaction(p) == ~outerTx[p] /\ ~ownTx[p]
Creates(l) == {i \in DOMAIN l : l[i].kind = "create"}
ProbedFn(l) == l[CHOOSE i \in DOMAIN l : l[i].kind = "probe"].fn

\* C8: of two fetches outside any transaction, the second called after the
\* first resolved, on a catalog that started empty: with the same tree and the
\* same batch size the first executes one CREATE FUNCTION and the second
\* none, its probe's rows being its result with no further statement; with
\* the same tree and another batch size the second probes another function
\* name and creates that function.
C8_StoredFunctionReuse ==
    \A p, q \in Procs :
        (/\ p # q /\ p \in doneBefore[q] /\ pc[p] = "done" /\ pc[q] = "done"
         /\ NoTransaction(p) /\ NoTransaction(q)
         /\ startCatalog[p] = {}
         /\ entity[p] = entity[q]) =>
            /\ Kinds(log[p]) = <<"onRequest", "probe", "create", "call">>
            /\ log[p][3].note = "created"
            /\ IF Len(uniqIds[p]) = Len(uniqIds[q])
               THEN /\ Kinds(log[q]) = <<"onRequest", "probe">>
                    /\ log[q][2].fn = log[p][2].fn
                    /\ log[q][2].note = "found"
                    /\ ResultIds(q) =
                           SelectSeq(FirstOccurrences(Requested(q)),
                                     LAMBDA v : v \in existing)
               ELSE /\ Kinds(log[q]) = <<"onRequest", "probe", "create", "call">>
                    /\ log[q][2].fn # log[p][2].fn
                    /\ log[q][3].note = "created"
                    /\ log[q][3].fn = log[q][2].fn

\* two fetches of the same tree and batch size, one after the other; the
\* second found the function
C8_Witness ==
    /\ pc[1] = "done" /\ pc[2] = "done"
    /\ 1 \in doneBefore[2]
    /\ NoTransaction(1) /\ NoTransaction(2)
    /\ entity[1] = entity[2]
    /\ Len(uniqIds[1]) = Len(uniqIds[2])
    /\ ids[1] # ids[2]
    /\ Kinds(log[2]) = <<"onRequest", "probe">>
    /\ Len(result[2]) > 0

\* C9: two concurrent fetches outside any transaction, of the same tree and
\* batch size, that both found the function missing: neither fails, each
\* resolves with the rows of its own ids, one of the two safe_create_fn calls
\* created the function and the other was swallowed, and the catalog holds
\* exactly one function of that name.
C9_ConcurrentCreation ==
    \A p, q \in Procs :
        (/\ p # q
         /\ NoTransaction(p) /\ NoTransaction(q)
         /\ entity[p] = entity[q]
         /\ Len(uniqIds[p]) = Len(uniqIds[q])
         /\ \E i \in DOMAIN log[p] : log[p][i].kind = "probe" /\ log[p][i].note = "missing"
         /\ \E i \in DOMAIN log[q] : log[q][i].kind = "probe" /\ log[q][i].note = "missing") =>
            /\ pc[p] # "rejected" /\ pc[q] # "rejected"
            /\ pc[p] \in {"probed", "created", "fetched", "done"}
            /\ pc[p] = "created" =>
                  Lookup(catalog, ProbedFn(log[p]), Len(uniqIds[p])) # {}
            /\ (Creates(log[p]) # {} /\ Creates(log[q]) # {}) =>
                  /\ Cardinality({f \in catalog : f.name = ProbedFn(log[p])}) = 1
                  /\ {log[p][3].note, log[q][3].note} = {"created", "swallowed"}
            /\ pc[p] = "done" =>
                  /\ Kinds(log[p]) = <<"onRequest", "probe", "create", "call">>
                  /\ ResultIds(p) =
                         SelectSeq(FirstOccurrences(Requested(p)),
                                   LAMBDA v : v \in existing)

\* both fetches resolved after both found the function missing, with
\* different id lists and rows
C9_Witness ==
    /\ pc[1] = "done" /\ pc[2] = "done"
    /\ NoTransaction(1) /\ NoTransaction(2)
    /\ entity[1] = entity[2]
    /\ ids[1] # ids[2]
    /\ Len(uniqIds[1]) = Len(uniqIds[2])
    /\ Creates(log[1]) # {} /\ Creates(log[2]) # {}
    /\ log[1][3].note = "swallowed"
    /\ Len(result[1]) > 0

\* C10 as stated: in the transaction that fetchEntities opened itself a
\* batch whose function is missing creates the function and calls it; only
\* a caller's transaction makes it run the raw query instead.
C10_AsStated ==
    \A p \in Procs :
        \A i \in DOMAIN log[p] :
            (log[p][i].kind = "probe" /\ log[p][i].note = "missing" /\ i < Len(log[p])) =>
                log[p][i + 1].kind = (IF outerTx[p] THEN "raw" ELSE "create")

\* C10: a batch whose function is missing creates the function through
\* safe_create_fn and then calls it only when no transaction is active at
\* all; in the transaction that fetchEntities opened itself, as in a caller's
\* transaction, it runs the raw query and creates nothing.
C10_CreateOnlyOutsideTransactions ==
    \A p \in Procs :
        /\ ownTx[p] => catalog = startCatalog[p]
        /\ \A i \in DOMAIN log[p] :
              /\ (log[p][i].kind = "probe" /\ log[p][i].note = "missing"
                    /\ i < Len(log[p])) =>
                    IF outerTx[p] \/ ownTx[p]
                    THEN log[p][i + 1].kind = "raw"
                    ELSE /\ log[p][i + 1].kind = "create"
                         /\ log[p][i + 1].via = safeCreateFnName
                         /\ i + 1 < Len(log[p]) => log[p][i + 2].kind = "call"
              /\ log[p][i].kind \in {"create", "call"} => ~ownTx[p] /\ ~outerTx[p]

\* a resolved fetch in its own transaction that ran the raw query for a
\* batch whose function was missing
C10_Witness ==
    /\ pc[1] = "done"
    /\ ownTx[1] /\ ~outerTx[1]
    /\ Count(log[1], "begin") = 1
    /\ Count(log[1], "raw") > 0
    /\ Count(log[1], "create") = 0


(***************************************************************************)
(* C11.  Development mode: ids that are not non-empty strings.             *)
(***************************************************************************)
IsNonEmptyString(v) == IsJsString(v) /\ v # <<>>
IsTruthyNonString(v) ==
    ~IsJsString(v) /\ (v = JsObject \/ (v[1] = "#number" /\ v # JsNumber(0)))
HasIncorrectId(p) == \E i \in DOMAIN ids[p] : ~IsNonEmptyString(ids[p][i])

\* C11 as the code has it: in development mode fetchEntities throws, before
\* any SQL and before the hook is called, exactly when the first element of
\* the id list that is not a non-empty string is a truthy value (a non-zero
\* number or an object); when that element is "", null, undefined or 0 the
\* call is not rejected by the check
C11_RejectsTruthyNonStrings ==
    \A p \in Procs :
        Called(p) =>
            /\ pc[p] = "threw" <=>
                  /\ isDevEnv
                  /\ \E i \in DOMAIN ids[p] :
                        /\ IsTruthyNonString(ids[p][i])
                        /\ \A j \in 1..(i - 1) : IsNonEmptyString(ids[p][j])
            /\ pc[p] = "threw" => log[p] = <<>>

\* a fetch of a non-zero number was thrown out
C11_Witness ==
    /\ isDevEnv
    /\ pc[1] = "threw"
    /\ ids[1] = << <<"1">>, JsNumber(1) >>

\* C11 as stated: in development mode every fetch whose id list holds an
\* element that is not a string or is empty is rejected before any SQL
C11_AsStated ==
    \A p \in Procs :
        (isDevEnv /\ Called(p) /\ HasIncorrectId(p)) =>
            pc[p] = "threw" /\ log[p] = <<>>


(***************************************************************************)
(* Schemas with relations.  Three entity types A, B and C, as the tests    *)
(* generate them: A has a relation to B, B one to C, C declares the        *)
(* inverse of B's relation, and B declares the inverse of A's relation     *)
(* unless the relation is declared on A's side only.  A schema names the   *)
(* kinds of the two relations, whether B declares the inverse, and the     *)
(* database name of the primary-key columns.                               *)
(***************************************************************************)
TstRelations ==
    {"owner-to-one", "one-to-owner", "one-to-many", "many-to-one", "many-to-many"}

inverse(relation) ==
    CASE relation = "owner-to-one" -> "one-to-owner"
      [] relation = "one-to-owner" -> "owner-to-one"
      [] relation = "one-to-many" -> "many-to-one"
      [] relation = "many-to-one" -> "one-to-many"
      [] relation = "many-to-many" -> "many-to-many"

isTstRelationToMany(relation) == relation \in {"one-to-many", "many-to-many"}

\* relations whose foreign key or join table is on the declaring side, so
\* that the other side need not declare an inverse
DeclaredAlone == {"owner-to-one", "many-to-one", "many-to-many"}

Schemas ==
    {sch \in [rel1 : TstRelations, rel2 : TstRelations, backlink : BOOLEAN,
              idColumn : {"id", "uid"}] :
        ~sch.backlink => sch.rel1 \in DeclaredAlone}

\* the characters of the names that are hashed
Chars ==
    [A |-> <<"A">>, B |-> <<"B">>, C |-> <<"C">>, id |-> <<"i", "d">>,
     aprop |-> <<"a", "p", "r", "o", "p">>, bprop |-> <<"b", "p", "r", "o", "p">>,
     cprop |-> <<"c", "p", "r", "o", "p">>]

tableNameOf(name) == <<"t", "s", "t", "_">> \o Chars[name]
ownPropOf(name) == CASE name = "A" -> "aprop" [] name = "B" -> "bprop" [] name = "C" -> "cprop"

\* RelationMetadata.relationType
relationTypeOf(relation) ==
    CASE relation \in {"owner-to-one", "one-to-owner"} ->
             <<"o", "n", "e", "-", "t", "o", "-", "o", "n", "e">>
      [] relation = "one-to-many" ->
             <<"o", "n", "e", "-", "t", "o", "-", "m", "a", "n", "y">>
      [] relation = "many-to-one" ->
             <<"m", "a", "n", "y", "-", "t", "o", "-", "o", "n", "e">>
      [] relation = "many-to-many" ->
             <<"m", "a", "n", "y", "-", "t", "o", "-", "m", "a", "n", "y">>

\* the column of the junction table that references the table of `name`
junctionKeyOf(name) == CASE name = "A" -> "tstAId" [] name = "B" -> "tstBId" [] name = "C" -> "tstCId"

\* the metadata of the relation `from`.`to` of kind `relation`; `declared`
\* tells whether this side is the one the shape names (the other side is
\* its inverse, and holds the join table of a many-to-many relation)
RelationMetadata(from, to, relation, declared, alone) ==
    [propertyName |-> to,
     propertyChars |-> Chars[to],
     idPropertyName |-> IF isTstRelationToMany(relation) THEN to \o "Ids" ELSE to \o "Id",
     entityName |-> from,
     inverseEntityName |-> to,
     entityTableName |-> tableNameOf(from),
     inverseTableName |-> tableNameOf(to),
     kind |-> relation,
     relationType |-> relationTypeOf(relation),
     isOwning |-> \/ relation \in {"owner-to-one", "many-to-one"}
                  \/ relation = "many-to-many" /\ (alone \/ ~declared),
     isOneToOne |-> relation \in {"owner-to-one", "one-to-owner"},
     isOneToOneOwner |-> relation = "owner-to-one",
     isOneToOneNotOwner |-> relation = "one-to-owner",
     isManyToOne |-> relation = "many-to-one",
     isOneToMany |-> relation = "one-to-many",
     isManyToMany |-> relation = "many-to-many",
     joinColumn |-> to \o "Id",
     inverseSidePropertyPath |-> from]

\* entityManager.connection.getMetadata(type) in the schema sch
getMetadataOf(sch, name) ==
    [name |-> name,
     tableName |-> tableNameOf(name),
     idColumn |-> sch.idColumn,
     ownColumns |-> << [propertyName |-> "id", databaseName |-> sch.idColumn],
                       [propertyName |-> ownPropOf(name),
                        databaseName |-> ownPropOf(name)] >>,
     properties |->
        << Chars.id, Chars[ownPropOf(name)] >> \o
        (CASE name = "A" -> << Chars.B >>
           [] name = "B" -> (IF sch.backlink THEN << Chars.A >> ELSE <<>>) \o << Chars.C >>
           [] name = "C" -> << Chars.B >>),
     relations |->
        CASE name = "A" ->
                << RelationMetadata("A", "B", sch.rel1, TRUE, ~sch.backlink) >>
          [] name = "B" ->
                (IF sch.backlink
                 THEN << RelationMetadata("B", "A", inverse(sch.rel1), FALSE, FALSE) >>
                 ELSE <<>>)
                \o << RelationMetadata("B", "C", sch.rel2, TRUE, FALSE) >>
          [] name = "C" ->
                << RelationMetadata("C", "B", inverse(sch.rel2), FALSE, FALSE) >>]


(***************************************************************************)
(* The query tree of a fetch tree.                                         *)
(***************************************************************************)
\* FetchNode: {type, nested?}; a missing nested list is the empty one
FetchNode(type, nested) == [type |-> type, nested |-> nested]

DataType == <<"d", "a", "t", "a">>
IdsType == <<"i", "d", "s">>
isIdNode(node) == node.type = IdsType
isDataNode(node) == node.type = DataType

\* one counter shared by all trees: it goes on from the aliases handed out
setupAlias_Shared(handedOut) == handedOut

\* setupAlias(): let aliasNum = 0, whatever was handed out to earlier trees
setupAlias(handedOut) == 0

\* nested.find(c => getMetadata(c.type).tableName ===
\* rel.inverseEntityMetadata.tableName): the first such entry, if any
findDefinedChild_None(sch, nested, rel) == <<>>
findDefinedChild(sch, nested, rel) ==
    LET hits == {i \in DOMAIN nested :
                    getMetadataOf(sch, nested[i].type).tableName = rel.inverseTableName}
    IN  IF hits = {} THEN <<>>
        ELSE << nested[CHOOSE i \in hits : \A j \in hits : i <= j] >>

\* the children follow the nested list: the relations that an entry of the
\* list names come first, in the order of the entries
childSlots_NestedFirst(meta, nested) ==
    LET named(rel) == \E i \in DOMAIN nested : tableNameOf(nested[i].type) = rel.inverseTableName
        pos(rel) == CHOOSE i \in DOMAIN nested :
                        /\ tableNameOf(nested[i].type) = rel.inverseTableName
                        /\ \A j \in 1..(i - 1) : tableNameOf(nested[j].type) # rel.inverseTableName
        first == SelectSeq(meta.relations, named)
        sorted == IF Len(first) = 2 /\ pos(first[1]) > pos(first[2])
                  THEN <<first[2], first[1]>> ELSE first
    IN  sorted \o SelectSeq(meta.relations, LAMBDA rel : ~named(rel))

\* meta.relations.map(rel => ...): one child per relation of the entity, in
\* the order of the relations
childSlots(meta, nested) == meta.relations

\* _buildQueryTree(entityManager, getAlias, node), where aliasNum is the
\* counter of getAlias before the call: the node and the counter after it.
\* The alias of a node is taken before its children are built, and the
\* children follow meta.relations.
RECURSIVE buildQueryTreeNode(_, _, _)
RECURSIVE buildNested(_, _, _, _, _)
buildQueryTreeNode(sch, aliasNum, node) ==
    LET meta == getMetadataOf(sch, node.type)
        children == buildNested(sch, aliasNum + 1, childSlots(meta, node.nested),
                                node.nested, 1)
    IN  [node |-> [type |-> DataType, alias |-> Alias(aliasNum + 1), meta |-> meta,
                   nested |-> children.nodes],
         aliasNum |-> children.aliasNum]
buildNested(sch, aliasNum, relations, nested, i) ==
    IF i > Len(relations) THEN [nodes |-> <<>>, aliasNum |-> aliasNum]
    ELSE LET definedChildNode == findDefinedChild(sch, nested, relations[i])
             child ==
                IF definedChildNode # <<>>
                THEN buildQueryTreeNode(sch, aliasNum, definedChildNode[1])
                ELSE [node |-> [type |-> IdsType, alias |-> Alias(aliasNum + 1),
                                meta |-> getMetadataOf(sch, relations[i].inverseEntityName),
                                nested |-> <<>>],
                      aliasNum |-> aliasNum + 1]
             rest == buildNested(sch, child.aliasNum, relations, nested, i + 1)
         IN  [nodes |-> <<child.node>> \o rest.nodes, aliasNum |-> rest.aliasNum]

\* buildQueryTree(entityManager, rootNode) for a fetch tree
buildQueryTreeOf(sch, handedOut, rootFetchNode) ==
    buildQueryTreeNode(sch, setupAlias(handedOut), rootFetchNode)

\* the fetch trees of the callers
FetchTrees ==
    LET a == FetchNode("A", <<>>)
        b == FetchNode("B", <<>>)
        c == FetchNode("C", <<>>)
        bc == FetchNode("B", <<c>>)
    IN  { a, b, c,
          FetchNode("A", <<b>>), FetchNode("A", <<c>>), FetchNode("A", <<bc>>),
          FetchNode("A", <<c, b>>), FetchNode("A", <<b, c>>),
          FetchNode("A", <<FetchNode("B", <<a, c>>)>>),
          FetchNode("A", <<FetchNode("B", <<c, a>>)>>),
          FetchNode("A", <<b, bc>>), FetchNode("A", <<bc, b>>),
          FetchNode("B", <<a>>), FetchNode("B", <<c>>),
          FetchNode("B", <<a, c>>), FetchNode("B", <<c, a>>),
          FetchNode("C", <<bc>>) }


(***************************************************************************)
(* Callers that build and hash query trees on one connection.              *)
(***************************************************************************)
MaxBuilds == 2      \* times the fetch tree is built and hashed
MaxOthers == 2      \* other trees built before or in between

\* no fetch is running
FetchIdle ==
    /\ InitCommon
    /\ existing = {}
    /\ catalog = {}
    /\ isDevEnv = TRUE
    /\ pc = [p \in Procs |-> "off"]
    /\ ids = [p \in Procs |-> <<>>]
    /\ entity = [p \in Procs |-> "TargetEntity"]
    /\ outerTx = [p \in Procs |-> FALSE]

\* the trees that other callers build
OtherTrees == { FetchNode("A", <<>>), FetchNode("C", <<FetchNode("B", <<>>)>>) }

\* buildQueryTree(entityManager, rootNode) for the fetch tree
BuildQueryTree ==
    /\ step = "idle"
    /\ Len(hashes) < MaxBuilds
    /\ LET start == setupAlias(aliasesBuilt)
           built == buildQueryTreeOf(schema, aliasesBuilt, fetchNode)
       IN  /\ queryTree' = built.node
           /\ aliasesBuilt' = aliasesBuilt + (built.aliasNum - start)
    /\ step' = "built"
    /\ UNCHANGED <<schema, fetchNode, hashes, dbRows, hydrated>>
    /\ UNCHANGED <<fetchVars, relVars, regVars, timerVars, joinVars>>

\* buildQueryTree for another caller's fetch tree
BuildOtherTree ==
    /\ step = "idle"
    /\ aliasesBuilt < MaxOthers * 4
    /\ \E other \in OtherTrees :
          LET start == setupAlias(aliasesBuilt)
              built == buildQueryTreeOf(schema, aliasesBuilt, other)
          IN  aliasesBuilt' = aliasesBuilt + (built.aliasNum - start)
    /\ UNCHANGED <<schema, fetchNode, queryTree, hashes, dbRows, hydrated, step>>
    /\ UNCHANGED <<fetchVars, relVars, regVars, timerVars, joinVars>>

\* hashTree(rootNode), as storedFnName and generateQuery call it
HashTree ==
    /\ step = "built"
    /\ hashes' = Append(hashes, hashTree(queryTree))
    /\ step' = "idle"
    /\ UNCHANGED <<schema, fetchNode, queryTree, aliasesBuilt, dbRows, hydrated>>
    /\ UNCHANGED <<fetchVars, relVars, regVars, timerVars, joinVars>>

NextTree == BuildQueryTree \/ BuildOtherTree \/ HashTree

TreeSchemas == {sch \in Schemas : sch.idColumn = "id"}

InitTree ==
    /\ FetchIdle
    /\ RelIdle
    /\ RegIdle
    /\ TimerIdle
    /\ JoinIdle
    /\ schema \in TreeSchemas
    /\ fetchNode \in FetchTrees
    /\ queryTree = <<>>
    /\ aliasesBuilt = 0
    /\ hashes = <<>>
    /\ dbRows = <<>>
    /\ hydrated = <<>>
    /\ step = "idle"

SpecTree == InitTree /\ [][NextTree]_vars


(***************************************************************************)
(* Rows of the compiled query.  A row is a record from column names to     *)
(* JSON values: a number, null, an array, or a row.                        *)
(***************************************************************************)
MaxIdsLen == 2      \* length of the id arrays the database aggregates
MaxChildren == 2    \* child rows the database aggregates for a parent

JNum(n) == [num |-> n]
JArr(elems) == [arr |-> elems]
IsArr(v) == DOMAIN v = {"arr"}

Has(row, key) == key \in DOMAIN row
\* delete row[key]
Delete(row, key) == [k \in DOMAIN row \ {key} |-> row[k]]
\* row[key] = value
Set(row, key, value) ==
    [k \in DOMAIN row \cup {key} |-> IF k = key THEN value ELSE row[k]]

\* getIdColumn(meta): the database name of the primary column
getIdColumn(meta) == meta.idColumn

\* findRelation(from, to): the first relation of from to the table of to
findRelation(from, to) ==
    from.meta.relations[
        CHOOSE i \in DOMAIN from.meta.relations :
            /\ from.meta.relations[i].inverseTableName = to.meta.tableName
            /\ \A j \in 1..(i - 1) :
                  from.meta.relations[j].inverseTableName # to.meta.tableName]

\* getIdPropertyName(meta, propertyName): the property the RelationIdMarker
\* of the relation decorates
getIdPropertyName(meta, relation) == relation.idPropertyName

\* findBacklinkKeyFromJunction(relation, to): the column of the junction
\* table whose foreign key references the table of `to`
findBacklinkKeyFromJunction(relation, to) == junctionKeyOf(to.name)

\* what the database holds around every row: whether a to-one relation is
\* set, the value aggregated for a to-many id child (Missing when the row
\* has no such key), and the primary keys of the child rows aggregated for
\* a to-many data child, in the order of the aggregate
Missing == [missing |-> TRUE]
JsonIds == {JsonNull} \cup {JNum(n) : n \in 1..2}
IdArrays ==
    {a \in SeqsUpTo(JsonIds, MaxIdsLen) :
        \A i, j \in DOMAIN a : (a[i] = a[j] /\ ~IsNull(a[i])) => i = j}
ChildKeys ==
    {c \in SeqsUpTo(1..MaxChildren, MaxChildren) : \A i, j \in DOMAIN c : c[i] = c[j] => i = j}
DbShapes ==
    [toOne : BOOLEAN,
     manyIds : {Missing, JsonNull} \cup {JArr(a) : a \in IdArrays},
     children : ChildKeys]

\* the compiled query fails in the database: joinUsingSingleLocalId selects
\* the child's primary key from the child's subquery by its database name,
\* while the subquery names its columns by property
RECURSIVE queryFails(_)
queryFails(node) ==
    \E i \in DOMAIN node.nested :
        LET childNode == node.nested[i]
            relation == findRelation(node, childNode)
        IN  /\ isDataNode(childNode)
            /\ \/ /\ (relation.isManyToOne \/ relation.isOneToOneOwner)
                   /\ getIdColumn(childNode.meta) # "id"
               \/ queryFails(childNode)

\* the row that the query compiled for the tree returns for `node` and the
\* primary key id: the value columns by property name, the id property of
\* every id child, the relation property of every data child, and, for a
\* data child of a many-to-many relation, the junction key of its parent
\* (parent is <<>> for the root and <<parent node, parent id>> below it)
RECURSIVE queryRow(_, _, _, _)
queryRow(parent, node, id, shape) ==
    LET own == {node.meta.ownColumns[i].propertyName : i \in DOMAIN node.meta.ownColumns}
        kids == DOMAIN node.nested
        rel(i) == findRelation(node, node.nested[i])
        toOne(i) == rel(i).isOneToOne \/ rel(i).isManyToOne
        keyOf(i) == IF isIdNode(node.nested[i])
                    THEN getIdPropertyName(node.meta, rel(i)) ELSE rel(i).propertyName
        selected == {i \in kids :
                        ~(isIdNode(node.nested[i]) /\ ~toOne(i) /\ shape.manyIds = Missing)}
        helper == IF parent # <<>> /\ findRelation(parent[1], node).isManyToMany
                  THEN {findBacklinkKeyFromJunction(findRelation(parent[1], node),
                                                    parent[1].meta)}
                  ELSE {}
        valueOf(i) ==
            IF isIdNode(node.nested[i])
            THEN IF toOne(i) THEN (IF shape.toOne THEN JNum(1) ELSE JsonNull)
                 ELSE shape.manyIds
            ELSE IF toOne(i)
                 THEN (IF shape.toOne THEN queryRow(<<node, id>>, node.nested[i], 1, shape)
                       ELSE JsonNull)
                 ELSE IF shape.children = <<>> THEN JsonNull
                      ELSE JArr([k \in DOMAIN shape.children |->
                                    queryRow(<<node, id>>, node.nested[i],
                                             shape.children[k], shape)])
    IN  [key \in own \cup {keyOf(i) : i \in selected} \cup helper |->
            IF key = "id" THEN JNum(id)
            ELSE IF key \in own THEN JNum(7)
            ELSE IF key \in helper THEN JNum(parent[2])
            ELSE valueOf(CHOOSE i \in selected : keyOf(i) = key)]

(***************************************************************************)
(* hydrateResults for a tree with relations.                               *)
(***************************************************************************)
\* entity[key] === null
IsStrictNull_Never(ent, key) == FALSE
IsStrictNull(ent, key) == Has(ent, key) /\ IsNull(ent[key])

\* (entity[key] || []): the array, or the empty array for null and undefined
OrEmpty(ent, key) ==
    IF Has(ent, key) /\ IsArr(ent[key]) THEN ent[key].arr ELSE <<>>

\* the nulls kept
filterNotNull_Kept(elems) == elems
\* .filter(isNotNull)
filterNotNull(elems) == SelectSeq(elems, LAMBDA e : ~IsNull(e))

\* .sort((a, b) => a - b) on numbers (null counts as 0 in a subtraction)
sortNumbers(elems) ==
    LET sorted == StableSort([i \in DOMAIN elems |->
                    [key |-> IF IsNull(elems[i]) THEN 0 ELSE elems[i].num,
                     val |-> elems[i]]])
    IN  [i \in DOMAIN sorted |-> sorted[i].val]

\* the rows left in the order of the aggregate
sortByIdColumn_Unsorted(rows, idColumn) == rows

\* .sort((a, b) => a[idColumn] - b[idColumn]): ascending by the column; when
\* the rows have no such key every comparison is NaN, which sort takes for
\* equal, and the order stays
sortByIdColumn(rows, idColumn) ==
    IF \A i \in DOMAIN rows : Has(rows[i], idColumn)
    THEN LET sorted == StableSort([i \in DOMAIN rows |->
                          [key |-> rows[i][idColumn].num, val |-> rows[i]]])
         IN  [i \in DOMAIN sorted |-> sorted[i].val]
    ELSE rows

\* the own-side helper key is named after the parent instead
cleanupKey_Parent(relation, node, childNode) ==
    findBacklinkKeyFromJunction(relation, node.meta)

\* const ownKeyName = findBacklinkKeyFromJunction(relation, childNode.meta)
cleanupKey(relation, node, childNode) ==
    findBacklinkKeyFromJunction(relation, childNode.meta)

\* hydrateResults(driver, node, entities): every entity has its value
\* columns hydrated, then its id children handled in the order of the
\* tree, then its data children
RECURSIVE hydrateResultsOf(_, _)
RECURSIVE handleNodes(_, _, _, _)
handleNodes(node, ent, kinds, i) ==
    IF i > Len(node.nested) THEN ent
    ELSE IF node.nested[i].type # kinds THEN handleNodes(node, ent, kinds, i + 1)
    ELSE LET childNode == node.nested[i]
             relation == findRelation(node, childNode)
             idColumn == getIdColumn(childNode.meta)
             propertyName == relation.propertyName
             idPropertyName == getIdPropertyName(node.meta, relation)
             toOne == relation.isOneToOne \/ relation.isManyToOne
             handled ==
                IF isIdNode(childNode)
                THEN IF toOne
                     THEN IF IsStrictNull(ent, idPropertyName)
                          THEN Delete(ent, idPropertyName) ELSE ent
                     ELSE LET ids_ == sortNumbers(filterNotNull(OrEmpty(ent, idPropertyName)))
                              set == Set(ent, idPropertyName, JArr(ids_))
                          IN  IF relation.isManyToMany
                              THEN Delete(set, cleanupKey(relation, node, childNode))
                              ELSE set
                ELSE IF toOne
                     THEN IF IsStrictNull(ent, propertyName)
                          THEN Delete(ent, propertyName)
                          ELSE Set(ent, propertyName,
                                   hydrateResultsOf(childNode, <<ent[propertyName]>>)[1])
                     ELSE LET rows == sortByIdColumn(OrEmpty(ent, propertyName), idColumn)
                              set == Set(ent, propertyName,
                                         JArr(hydrateResultsOf(childNode, rows)))
                          IN  IF relation.isManyToMany
                              THEN Delete(set, cleanupKey(relation, node, childNode))
                              ELSE set
         IN  handleNodes(node, handled, kinds, i + 1)
hydrateResultsOf(node, entities) ==
    [e \in DOMAIN entities |->
        LET own == {node.meta.ownColumns[i].propertyName : i \in DOMAIN node.meta.ownColumns}
            valued == [k \in DOMAIN entities[e] |->
                         IF k \in own THEN prepareHydratedValue(entities[e][k], k)
                         ELSE entities[e][k]]
        IN  handleNodes(node, handleNodes(node, valued, IdsType, 1), DataType, 1)]

(***************************************************************************)
(* One fetch of a tree with relations: build, query, hydrate.              *)
(***************************************************************************)
\* entityManager.query of the compiled query for one root id
RunQuery ==
    /\ step = "built"
    /\ IF queryFails(queryTree)
       THEN step' = "rejected" /\ UNCHANGED dbRows
       ELSE /\ \E shape \in DbShapes : dbRows' = << queryRow(<<>>, queryTree, 1, shape) >>
            /\ step' = "queried"
    /\ UNCHANGED <<schema, fetchNode, queryTree, aliasesBuilt, hashes, hydrated>>
    /\ UNCHANGED <<fetchVars, relVars, regVars, timerVars, joinVars>>

\* hydrateResults(driver, rootNode, entities)
HydrateResults ==
    /\ step = "queried"
    /\ hydrated' = hydrateResultsOf(queryTree, dbRows)
    /\ step' = "hydrated"
    /\ UNCHANGED <<schema, fetchNode, queryTree, aliasesBuilt, hashes, dbRows>>
    /\ UNCHANGED <<fetchVars, relVars, regVars, timerVars, joinVars>>

NextHydrate == BuildQueryTree \/ RunQuery \/ HydrateResults

HydrateTrees ==
    {t \in FetchTrees : Len(t.nested) <= 1}

InitHydrate ==
    /\ FetchIdle
    /\ RelIdle
    /\ RegIdle
    /\ TimerIdle
    /\ JoinIdle
    /\ schema \in Schemas
    /\ fetchNode \in HydrateTrees
    /\ queryTree = <<>>
    /\ aliasesBuilt = 0
    /\ hashes = <<>>
    /\ dbRows = <<>>
    /\ hydrated = <<>>
    /\ step = "idle"

SpecHydrate == InitHydrate /\ [][NextHydrate]_vars

(***************************************************************************)
(* C12 .. C15.  The hydrated rows.                                         *)
(***************************************************************************)
\* the rows under the relation property of a data child: none for a missing
\* key or null, the row of a to-one relation, the rows of an array
ChildRows(row, key) ==
    IF ~Has(row, key) \/ IsNull(row[key]) THEN <<>>
    ELSE IF IsArr(row[key]) THEN row[key].arr
    ELSE <<row[key]>>

\* every row of a result at every depth, with the node it belongs to
RECURSIVE RowsAt(_, _)
RowsAt(node, rows) ==
    {[node |-> node, row |-> rows[i]] : i \in DOMAIN rows}
    \cup UNION {RowsAt(node.nested[k],
                       ChildRows(rows[i], findRelation(node, node.nested[k]).propertyName)) :
                    i \in DOMAIN rows,
                    k \in {c \in DOMAIN node.nested : isDataNode(node.nested[c])}}

IsToOne(relation) == relation.isOneToOne \/ relation.isManyToOne

\* the key under which a row holds the child: the id property of an id
\* child, the relation property of a data child
ChildKey(node, k) ==
    IF isIdNode(node.nested[k])
    THEN findRelation(node, node.nested[k]).idPropertyName
    ELSE findRelation(node, node.nested[k]).propertyName

ToOneKids(node) ==
    {k \in DOMAIN node.nested : IsToOne(findRelation(node, node.nested[k]))}
ToManyIdKids(node) ==
    {k \in DOMAIN node.nested :
        isIdNode(node.nested[k]) /\ ~IsToOne(findRelation(node, node.nested[k]))}
ToManyDataKids(node) ==
    {k \in DOMAIN node.nested :
        isDataNode(node.nested[k]) /\ ~IsToOne(findRelation(node, node.nested[k]))}
ManyToManyDataKids(node) ==
    {k \in DOMAIN node.nested :
        isDataNode(node.nested[k]) /\ findRelation(node, node.nested[k]).isManyToMany}

HydratedRows == RowsAt(queryTree, hydrated)
QueriedRows == RowsAt(queryTree, dbRows)

\* C12: after hydration no row at any depth holds null under the id
\* property of a to-one id child or under the relation property of a to-one
\* data child; where the database returned null the key is gone
C12_AbsentToOneOmitted ==
    step = "hydrated" =>
        /\ \A x \in HydratedRows : \A k \in ToOneKids(x.node) :
              Has(x.row, ChildKey(x.node, k)) => ~IsNull(x.row[ChildKey(x.node, k)])
        /\ \A x \in QueriedRows : \A k \in ToOneKids(x.node) :
              IsNull(x.row[ChildKey(x.node, k)]) =>
                  \A y \in HydratedRows :
                      y.node = x.node => ~Has(y.row, ChildKey(x.node, k))

\* rows below the root came with null for a to-one id child and for a
\* to-one data child, and were hydrated
C12_Witness ==
    /\ step = "hydrated"
    /\ \E x \in QueriedRows :
          /\ x.node # queryTree
          /\ \E k \in ToOneKids(x.node) :
                isIdNode(x.node.nested[k]) /\ IsNull(x.row[ChildKey(x.node, k)])
    /\ \E x \in QueriedRows : \E k \in ToOneKids(x.node) :
          isDataNode(x.node.nested[k]) /\ IsNull(x.row[ChildKey(x.node, k)])

\* the non-null elements of the value the database returned for a key
ReturnedIds(row, key) == {e \in Range(OrEmpty(row, key)) : ~IsNull(e)}

\* C13: after hydration the id property of every to-many id child, in every
\* row, is an array without nulls whose ids ascend strictly (so they are
\* distinct), and holds exactly the non-null ids the database returned:
\* none when it returned null, no key or an empty array
C13_ToManyIdsSorted ==
    step = "hydrated" =>
        /\ \A x \in HydratedRows : \A k \in ToManyIdKids(x.node) :
              LET key == ChildKey(x.node, k)
              IN  /\ Has(x.row, key) /\ IsArr(x.row[key])
                  /\ \A i \in DOMAIN x.row[key].arr : ~IsNull(x.row[key].arr[i])
                  /\ \A i, j \in DOMAIN x.row[key].arr :
                        i < j => x.row[key].arr[i].num < x.row[key].arr[j].num
        /\ \A x \in QueriedRows : \A k \in ToManyIdKids(x.node) :
              \A y \in HydratedRows :
                  y.node = x.node =>
                      Range(y.row[ChildKey(x.node, k)].arr)
                          = ReturnedIds(x.row, ChildKey(x.node, k))

\* the database returned an unsorted array with a null in it
C13_Witness ==
    /\ step = "hydrated"
    /\ \E x \in QueriedRows : \E k \in ToManyIdKids(x.node) :
          LET key == ChildKey(x.node, k)
          IN  /\ Has(x.row, key) /\ IsArr(x.row[key])
              /\ x.row[key].arr = <<JNum(2), JsonNull>>
    /\ \E y \in HydratedRows : \E k \in ToManyIdKids(y.node) :
          y.row[ChildKey(y.node, k)] = JArr(<<JNum(2)>>)

\* the rows of an array ascend by the primary-key property
AscendingById(rows) ==
    \A i, j \in DOMAIN rows : i < j => rows[i].id.num < rows[j].id.num

\* the relation property of every to-many data child is an array, empty
\* where the database returned null
ToManyDataIsArray ==
    /\ \A x \in HydratedRows : \A k \in ToManyDataKids(x.node) :
          Has(x.row, ChildKey(x.node, k)) /\ IsArr(x.row[ChildKey(x.node, k)])
    /\ \A x \in QueriedRows : \A k \in ToManyDataKids(x.node) :
          IsNull(x.row[ChildKey(x.node, k)]) =>
              \A y \in HydratedRows :
                  y.node = x.node => y.row[ChildKey(x.node, k)] = JArr(<<>>)

\* C14 as the code has it: after hydration the relation property of every
\* to-many data child is an array, empty where the database returned null,
\* and its rows ascend by primary key when the primary-key column of the
\* child has the name of its property; when the names differ the rows stay
\* in the order the database aggregated them
C14_ToManyRowsSortedByColumn ==
    step = "hydrated" =>
        /\ ToManyDataIsArray
        /\ \A x \in HydratedRows : \A k \in ToManyDataKids(x.node) :
              getIdColumn(x.node.nested[k].meta) = "id" =>
                  AscendingById(x.row[ChildKey(x.node, k)].arr)

\* two child rows came in descending order and were sorted
C14_Witness ==
    /\ step = "hydrated"
    /\ schema.idColumn = "id"
    /\ \E x \in QueriedRows : \E k \in ToManyDataKids(x.node) :
          LET rows == ChildRows(x.row, ChildKey(x.node, k))
          IN  Len(rows) = 2 /\ ~AscendingById(rows)
    /\ \E y \in HydratedRows : \E k \in ToManyDataKids(y.node) :
          Len(y.row[ChildKey(y.node, k)].arr) = 2

\* C14 as stated: for every schema the rows of every to-many data child
\* ascend by the child's primary key
C14_AsStated ==
    step = "hydrated" =>
        /\ ToManyDataIsArray
        /\ \A x \in HydratedRows : \A k \in ToManyDataKids(x.node) :
              AscendingById(x.row[ChildKey(x.node, k)].arr)

JunctionKeys == {junctionKeyOf(name) : name \in {"A", "B", "C"}}

\* every entity fetched as the data child of a many-to-many relation
\* declares a relation back to its parent
RECURSIVE ChildrenDeclareInverse(_)
ChildrenDeclareInverse(node) ==
    /\ \A k \in ManyToManyDataKids(node) :
          \E i \in DOMAIN node.nested[k].meta.relations :
              node.nested[k].meta.relations[i].inverseTableName = node.meta.tableName
    /\ \A k \in DOMAIN node.nested : ChildrenDeclareInverse(node.nested[k])

\* C15 as the code has it: when every entity fetched as the data child of a
\* many-to-many relation declares the inverse relation, no hydrated row at
\* any depth holds a junction key column
C15_HelperKeyRemovedViaInverse ==
    (step = "hydrated" /\ ChildrenDeclareInverse(queryTree)) =>
        \A x \in HydratedRows : DOMAIN x.row \cap JunctionKeys = {}

\* child rows of a many-to-many relation came with the junction key of
\* their parent
C15_Witness ==
    /\ step = "hydrated"
    /\ ChildrenDeclareInverse(queryTree)
    /\ \E x \in QueriedRows : DOMAIN x.row \cap JunctionKeys # {}

\* C15 as stated: no hydrated row at any depth holds a junction key column,
\* whether or not the child declares the inverse relation
C15_AsStated ==
    step = "hydrated" =>
        \A x \in HydratedRows : DOMAIN x.row \cap JunctionKeys = {}

(***************************************************************************)
(* C16, C17.  The query tree and its hash.                                 *)
(***************************************************************************)
\* the fetch trees obtained from a fetch tree by permuting the entries of
\* its nested lists, at any depth
RECURSIVE Rewritten(_)
Rewritten(node) ==
    IF node.nested = <<>> THEN {node}
    ELSE LET n == Len(node.nested)
             kids == [i \in 1..n |-> Rewritten(node.nested[i])]
             choices == {f \in [1..n -> UNION {kids[i] : i \in 1..n}] :
                            \A i \in 1..n : f[i] \in kids[i]}
             perms == {q \in [1..n -> 1..n] : \A i, j \in 1..n : q[i] = q[j] => i = j}
         IN  {FetchNode(node.type, [i \in 1..n |-> f[q[i]]]) : f \in choices, q \in perms}

\* no nested list names one entity type twice
RECURSIVE NoRepeatedType(_)
NoRepeatedType(node) ==
    /\ \A i, j \in DOMAIN node.nested :
          node.nested[i].type = node.nested[j].type => i = j
    /\ \A i \in DOMAIN node.nested : NoRepeatedType(node.nested[i])

\* C16 as the code has it: for a fetch tree none of whose nested lists names
\* an entity type twice, every permutation of the entries of its nested
\* lists builds the same query tree (same children in the same order, same
\* kinds, same aliases); the hash, the stored-function name and the
\* compiled query are computed from that tree alone
C16_PermutedNestedSameTree ==
    (step = "built" /\ NoRepeatedType(fetchNode)) =>
        \A other \in Rewritten(fetchNode) :
            buildQueryTreeOf(schema, aliasesBuilt, other).node = queryTree

\* a tree was built from a fetch tree with a two-entry nested list
C16_Witness ==
    /\ step = "built"
    /\ NoRepeatedType(fetchNode)
    /\ Cardinality(Rewritten(fetchNode)) > 1
    /\ \E i \in DOMAIN queryTree.nested :
          /\ isDataNode(queryTree.nested[i])
          /\ \A k \in DOMAIN queryTree.nested[i].nested :
                isDataNode(queryTree.nested[i].nested[k])

\* C16 as stated: for every fetch tree, every permutation of the entries of
\* its nested lists builds the same query tree
C16_AsStated ==
    step = "built" =>
        \A other \in Rewritten(fetchNode) :
            buildQueryTreeOf(schema, aliasesBuilt, other).node = queryTree

\* the number of aliases one build of the fetch tree takes
OwnAliases == buildQueryTreeOf(schema, 0, fetchNode).aliasNum

\* C17: for one schema and one fetch tree every build followed by hashTree
\* gives the same hash, however many other trees were built before or in
\* between; the aliases of every tree start at rel_1; the hash is a string
\* of decimal digits
C17_HashStableAcrossBuilds ==
    /\ \A i, j \in DOMAIN hashes : hashes[i] = hashes[j]
    /\ \A i \in DOMAIN hashes :
          hashes[i] # <<>> /\ \A k \in DOMAIN hashes[i] : IsDigit(hashes[i][k])
    /\ step = "built" => queryTree.alias = Alias(1)

\* the fetch tree was hashed twice, with other trees built meanwhile
C17_Witness ==
    /\ Len(hashes) = 2
    /\ aliasesBuilt > 2 * OwnAliases
    /\ Len(queryTree.nested) > 0


(***************************************************************************)
(* setRelation and removeRelation: the tables.  A table is a function from *)
(* the primary keys of its rows to the rows; a row is a function from the  *)
(* foreign key columns of the table to the key referenced (NULL for none). *)
(* A junction table is a set of rows with one key per side.                *)
(***************************************************************************)
MaxRowId == 2       \* the tables of A and B hold the rows 1..MaxRowId
MaxChanges == 2     \* changes passed to one call of removeRelation

NULL == 0
RowIds == 1..MaxRowId

\* the result of Array.prototype.find when no relation matches
NoRelation == [none |-> TRUE]

\* ownMeta.relations.find(rel => rel.inverseEntityMetadata.tableName === targetMeta.tableName)
findDirectRelation_First(ownMeta, targetMeta) == ownMeta.relations[1]
findDirectRelation(ownMeta, targetMeta) ==
    IF \E i \in DOMAIN ownMeta.relations :
          ownMeta.relations[i].inverseTableName = targetMeta.tableName
    THEN ownMeta.relations[
            CHOOSE i \in DOMAIN ownMeta.relations :
                /\ ownMeta.relations[i].inverseTableName = targetMeta.tableName
                /\ \A j \in 1..(i - 1) :
                      ownMeta.relations[j].inverseTableName # targetMeta.tableName]
    ELSE NoRelation

\* relation.inverseRelation
inverseRelationOf(sch, relation) ==
    findDirectRelation(getMetadataOf(sch, relation.inverseEntityName),
                       getMetadataOf(sch, relation.entityName))

\* the relations of `name` that are held in a column of its own table
columnRelations(sch, name) ==
    {r \in Range(getMetadataOf(sch, name).relations) : r.isOwning /\ ~r.isManyToMany}
fkColumns(sch, name) == {r.propertyName : r \in columnRelations(sch, name)}

\* relation.junctionEntityMetadata.tableName
junctionOf(relation) ==
    IF "A" \in {relation.entityName, relation.inverseEntityName} THEN "AB" ELSE "BC"
\* the two sides of a junction table
junctionSides(junction) == IF junction = "AB" THEN {"A", "B"} ELSE {"B", "C"}
junctionKeys(junction) == {junctionKeyOf(name) : name \in junctionSides(junction)}
\* whether the schema has the junction table
hasJunction(sch, junction) ==
    IF junction = "AB" THEN sch.rel1 = "many-to-many" ELSE sch.rel2 = "many-to-many"

\* the integer a string is cast to when it is compared with an integer
\* column; String(row.id) is NumToString
castToInteger(id) == parseFloat(id)

\* the rows of a table and the row of an id
hasRow(tbls, name, id) == castToInteger(id) \in DOMAIN tbls[name]

\* the foreign key constraints: a key references an existing row, and the
\* key of a one-to-one relation is unique
keysValid(sch, tbls) ==
    /\ \A name \in {"A", "B", "C"} : \A r \in columnRelations(sch, name) :
          /\ \A id \in DOMAIN tbls[name] :
                tbls[name][id][r.propertyName] \in
                    {NULL} \cup DOMAIN tbls[r.inverseEntityName]
          /\ r.isOneToOne =>
                \A id1, id2 \in DOMAIN tbls[name] :
                    /\ id1 # id2
                    /\ tbls[name][id1][r.propertyName] # NULL
                    => tbls[name][id1][r.propertyName] # tbls[name][id2][r.propertyName]
    /\ \A junction \in {"AB", "BC"} : \A row \in tbls[junction] :
          \A name \in junctionSides(junction) :
              row[junctionKeyOf(name)] \in DOMAIN tbls[name]

\* UPDATE name SET column = value WHERE id = id
updateColumn(tbls, name, id, column, value) ==
    IF id \in DOMAIN tbls[name]
    THEN [tbls EXCEPT ![name][id][column] = value]
    ELSE tbls

\* the row of the junction table of a relation that joins own and remote
junctionRow(relation, own, remote) ==
    [k \in {junctionKeyOf(relation.entityName), junctionKeyOf(relation.inverseEntityName)} |->
        IF k = junctionKeyOf(relation.entityName) THEN own ELSE remote]

\* the ids related to the row `id` of relation.entityMetadata, as the id
\* projections of the compiled query select them: the local column, the
\* remote rows whose column references the row, or the junction rows
relatedIds(tbls, relation, id) ==
    IF relation.isManyToMany
    THEN {row[junctionKeyOf(relation.inverseEntityName)] :
            row \in {j \in tbls[junctionOf(relation)] :
                        j[junctionKeyOf(relation.entityName)] = id}}
    ELSE IF relation.isOwning
    THEN {tbls[relation.entityName][id][relation.propertyName]} \ {NULL}
    ELSE {r \in DOMAIN tbls[relation.inverseEntityName] :
            tbls[relation.inverseEntityName][r][relation.inverseSidePropertyPath] = id}

(***************************************************************************)
(* setRelation.                                                            *)
(***************************************************************************)
SpecificEntity(type, id) == [type |-> type, id |-> id]
RelationChange(from, to) == [from |-> from, to |-> to]

\* an entry of the record of reads, writes and errors of a call
RelEv(op, target, id) == [op |-> op, target |-> target, id |-> id]

IsRelation(r) == "none" \notin DOMAIN r

\* relation.isOwning || relation.isManyToMany: the entity that is saved
savesOwnEntity(relation) == relation.isOwning \/ relation.isManyToMany

\* targetEntity[inverseRelation.propertyName] = ownEntity: the row the
\* key of the target row references after the assignment
assignedToTarget_Self(ownEntity, targetEntity) == targetEntity
assignedToTarget(ownEntity, targetEntity) == ownEntity

\* entityManager.save(type, entity) after entity[relation.propertyName]
\* was assigned: the tables when the save succeeds.  For a many-to-many
\* relation the array assigned holds the target only (findOne loads no
\* relation); `keep` tells whether the junction rows of the entity that
\* the array does not name stay
saveResult(tbls, relation, id, remote, keep) ==
    IF relation.isManyToMany
    THEN [tbls EXCEPT ![junctionOf(relation)] =
            {j \in @ : keep \/ j[junctionKeyOf(relation.entityName)] # id}
            \cup {junctionRow(relation, id, remote)}]
    ELSE IF relation.isOwning
    THEN updateColumn(tbls, relation.entityName, id, relation.propertyName, remote)
    ELSE tbls
\* the save fails when the update breaks a constraint
saveRejects(sch, tbls, relation, id, remote) ==
    ~keysValid(sch, saveResult(tbls, relation, id, remote, TRUE))

\* the call arguments and what the relation lookup finds
from == request.changes[1].from
to == request.changes[1].to
ownMeta == getMetadataOf(schema, from.type)
targetMeta == getMetadataOf(schema, to.type)
relationOfCall == findDirectRelation(ownMeta, targetMeta)

Throw(message) ==
    /\ rpc' = "threw"
    /\ rlog' = Append(rlog, RelEv("throw", message, <<>>))

\* the target left out of the array
appendTarget_Only(tbls, relation, ownEntity, targetEntity) == <<>>

\* [...(ownEntity[propertyName] || []), targetEntity]: what the relation
\* property holds in the entity that findOne resolved with, then the
\* target.  findOne is given no relation to load: the entity has the
\* columns of its row
appendTarget(tbls, relation, ownEntity, targetEntity) ==
    [i \in DOMAIN OrEmpty(tbls[relation.entityName][ownEntity], relation.propertyName)
        |-> OrEmpty(tbls[relation.entityName][ownEntity], relation.propertyName)[i].num]
    \o <<targetEntity>>

\* setRelation(entityManager, from, to): the relation lookup and the read
\* of the own entity
SetRelation ==
    /\ rpc = "called"
    /\ request.op = "setRelation"
    /\ IF ~IsRelation(relationOfCall)
       THEN Throw("No relation")
       ELSE /\ rpc' = "findOwn"
            /\ rlog' = Append(rlog, RelEv("findOne", from.type, from.id))
    /\ UNCHANGED <<tables, request, loaded>>
    /\ UNCHANGED <<fetchVars, treeVars, regVars, timerVars, joinVars>>

\* findOne(ownMeta.tableName, from.id) resolves; the target is read
OwnFound ==
    /\ rpc = "findOwn"
    /\ IF ~hasRow(tables, from.type, from.id)
       THEN Throw("does not exists") /\ UNCHANGED loaded
       ELSE /\ loaded' = [loaded EXCEPT !.ownEntity = castToInteger(from.id)]
            /\ rpc' = "findTarget"
            /\ rlog' = Append(rlog, RelEv("findOne", to.type, to.id))
    /\ UNCHANGED <<tables, request>>
    /\ UNCHANGED <<fetchVars, treeVars, regVars, timerVars, joinVars>>

\* findOne(targetMeta.tableName, to.id) resolves; the relation property is
\* assigned and the save is issued
TargetFound ==
    /\ rpc = "findTarget"
    /\ IF ~hasRow(tables, to.type, to.id)
       THEN Throw("does not exists") /\ UNCHANGED loaded
       ELSE /\ loaded' = [loaded EXCEPT
                             !.targetEntity = castToInteger(to.id),
                             !.assigned =
                                IF relationOfCall.isManyToMany
                                THEN appendTarget(tables, relationOfCall,
                                                  loaded.ownEntity, castToInteger(to.id))
                                ELSE <<>>]
            /\ IF savesOwnEntity(relationOfCall)
               THEN /\ rpc' = "saveOwn"
                    /\ rlog' = Append(rlog, RelEv("save", from.type,
                                                  NumToString(loaded.ownEntity)))
               ELSE IF ~IsRelation(inverseRelationOf(schema, relationOfCall))
               THEN Throw("No inverse relation")
               ELSE /\ rpc' = "saveTarget"
                    /\ rlog' = Append(rlog, RelEv("save", to.type,
                                                  NumToString(castToInteger(to.id))))
    /\ UNCHANGED <<tables, request>>
    /\ UNCHANGED <<fetchVars, treeVars, regVars, timerVars, joinVars>>

\* entityManager.save resolves or rejects; String(savedEntity.id) is
\* compared with the id of the call
Save ==
    /\ rpc \in {"saveOwn", "saveTarget"}
    /\ LET relation == IF rpc = "saveOwn" THEN relationOfCall
                       ELSE inverseRelationOf(schema, relationOfCall)
           saved == IF rpc = "saveOwn" THEN loaded.ownEntity ELSE loaded.targetEntity
           remote == IF rpc = "saveOwn" THEN loaded.targetEntity
                     ELSE assignedToTarget(loaded.ownEntity, loaded.targetEntity)
           callId == IF rpc = "saveOwn" THEN from.id ELSE to.id
       IN IF saveRejects(schema, tables, relation, saved, remote)
          THEN Throw("QueryFailedError") /\ UNCHANGED tables
          ELSE /\ \E keep \in BOOLEAN :
                    tables' = saveResult(tables, relation, saved, remote, keep)
               /\ IF NumToString(saved) # callId
                  THEN Throw("Implementation error")
                  ELSE rpc' = "done" /\ UNCHANGED rlog
    /\ UNCHANGED <<request, loaded>>
    /\ UNCHANGED <<fetchVars, treeVars, regVars, timerVars, joinVars>>

(***************************************************************************)
(* removeRelation.                                                         *)
(***************************************************************************)
\* flatten(changes.map(({from, to}) => [from, to]))
entitiesOf(changes) ==
    [i \in 1..(2 * Len(changes)) |->
        IF i % 2 = 1 THEN changes[(i + 1) \div 2].from ELSE changes[i \div 2].to]

\* the keys of lodash groupBy, in the order of their first occurrence
groupKeys(list, key(_)) == uniq([i \in DOMAIN list |-> key(list[i])])
group(list, key(_), k) == SelectSeq(list, LAMBDA x : key(x) = k)

tablePath(etty) == etty.type

\* requestedIds of a group of entities
requestedIds(entities) == [i \in DOMAIN entities |-> entities[i].id]

\* manager.find(target, {id: In(requestedIds)}).map(e => String(e.id))
fetchedIds(tbls, name, requested) ==
    {NumToString(n) : n \in {r \in DOMAIN tbls[name] :
                                \E i \in DOMAIN requested : castToInteger(requested[i]) = r}}

\* lodash difference(requestedIds, fetchedIds)
difference_None(requested, fetched) == <<>>
difference(requested, fetched) == SelectSeq(requested, LAMBDA id : id \notin fetched)

\* the groups of entities of which the database lacks a row
missingGroups(tbls, changes) ==
    {name \in Range(groupKeys(entitiesOf(changes), tablePath)) :
        LET requested == requestedIds(group(entitiesOf(changes), tablePath, name))
        IN  difference(requested, fetchedIds(tbls, name, requested)) # <<>>}

\* the relation of a change
relationOf(sch, c) ==
    findDirectRelation(getMetadataOf(sch, c.from.type), getMetadataOf(sch, c.to.type))

\* LocalRelChange and JunctionRelChange
RelChange(type, relation, meta, prop, fromId, toId) ==
    [type |-> type, relation |-> relation, meta |-> meta, prop |-> prop,
     from |-> fromId, to |-> toId]
isLocalRelChange(change) == change.type = "local"
isJunctionRelChange(change) == change.type = "junction"

\* changes.map(c => ...) of a list of changes that all have a relation
relationChange(sch, c) ==
    LET rel == relationOf(sch, c)
    IN  IF rel.isManyToOne \/ (rel.isOneToOne /\ rel.isOneToOneOwner)
        THEN RelChange("local", rel, rel.entityName, rel.propertyName, c.from.id, c.to.id)
        ELSE IF rel.isOneToMany \/ (rel.isOneToOne /\ rel.isOneToOneNotOwner)
        THEN RelChange("local", rel, rel.inverseEntityName, rel.inverseSidePropertyPath,
                       c.to.id, c.from.id)
        ELSE RelChange("junction", rel, "", "", c.from.id, c.to.id)
relationChanges(sch, changes) == [i \in DOMAIN changes |-> relationChange(sch, changes[i])]

\* `${change.meta.tableName}_${change.from}`
localKey(change) == <<change.meta, change.from>>
junctionKey(change) == junctionOf(change.relation)

\* manager.update(meta.target, {id: entity.id}, entity) for every group of
\* local changes: entity[change.prop] = null for every change of the group
\* the updates left out
updateLocal_None(tbls, changes) == tbls
RECURSIVE updateLocal(_, _)
updateLocal(tbls, changes) ==
    IF changes = <<>> THEN tbls
    ELSE updateLocal(updateColumn(tbls, changes[1].meta, castToInteger(changes[1].from),
                                  changes[1].prop, NULL),
                     Tail(changes))

\* the rows that the delete of a group of junction changes removes: the
\* key names are those of the relation of the first change of the group
deletedRows(sch, tbls, batchedJunctionChanges) ==
    LET rel == batchedJunctionChanges[1].relation
        ownKeyName == findBacklinkKeyFromJunction(rel, getMetadataOf(sch, rel.entityName))
        remoteKeyName ==
            findBacklinkKeyFromJunction(rel, getMetadataOf(sch, rel.inverseEntityName))
    IN  {row \in tbls[junctionOf(rel)] :
            \E i \in DOMAIN batchedJunctionChanges :
                /\ row[ownKeyName] = castToInteger(batchedJunctionChanges[i].from)
                /\ row[remoteKeyName] = castToInteger(batchedJunctionChanges[i].to)}

\* the deletes of all the groups of junction changes
deleteJunctions(sch, tbls, junctionChanges) ==
    [name \in DOMAIN tbls |->
        IF name \in Range(groupKeys(junctionChanges, junctionKey))
        THEN tbls[name] \ deletedRows(sch, tbls, group(junctionChanges, junctionKey, name))
        ELSE tbls[name]]

\* the log entries of one statement per group
groupEvents(op, keys) == [i \in DOMAIN keys |-> RelEv(op, keys[i], <<>>)]

\* the call fails: the transaction that the call opened is rolled back
Fail(message) ==
    /\ rpc' = "threw"
    /\ rlog' = rlog \o <<RelEv("throw", message, <<>>)>> \o
               (IF request.inTransaction THEN <<>>
                ELSE <<RelEv("rollback", "", <<>>)>>)
    /\ tables' = IF request.inTransaction THEN tables ELSE request.tablesAtCall

\* removeRelation(manager, changes): the transaction is opened unless one
\* is active, and the entities of every table are read
RemoveRelation ==
    /\ rpc = "called"
    /\ request.op = "removeRelation"
    /\ rlog' = rlog \o
               (IF request.inTransaction THEN <<>>
                ELSE <<RelEv("transaction", "REPEATABLE READ", <<>>)>>) \o
               groupEvents("find", groupKeys(entitiesOf(request.changes), tablePath))
    /\ rpc' = "verify"
    /\ UNCHANGED <<tables, request, loaded>>
    /\ UNCHANGED <<fetchVars, treeVars, regVars, timerVars, joinVars>>

\* the reads resolve: the ids that were not found fail the call; the
\* relation changes are computed
VerifyExist ==
    /\ rpc = "verify"
    /\ IF missingGroups(tables, request.changes) # {}
       THEN Fail("do not exist") /\ UNCHANGED loaded
       ELSE IF \E i \in DOMAIN request.changes : ~IsRelation(relationOf(schema, request.changes[i]))
       THEN Fail("No relation") /\ UNCHANGED loaded
       ELSE /\ loaded' = [loaded EXCEPT
                             !.relationChanges = relationChanges(schema, request.changes)]
            /\ rpc' = "update"
            /\ UNCHANGED <<tables, rlog>>
    /\ UNCHANGED request
    /\ UNCHANGED <<fetchVars, treeVars, regVars, timerVars, joinVars>>

\* the updates of the local changes, one per entity
UpdateLocal ==
    /\ rpc = "update"
    /\ LET localRelChanges == SelectSeq(loaded.relationChanges, isLocalRelChange)
       IN  /\ tables' = updateLocal(tables, localRelChanges)
           /\ rlog' = rlog \o
                [i \in DOMAIN groupKeys(localRelChanges, localKey) |->
                    RelEv("update", groupKeys(localRelChanges, localKey)[i][1],
                          groupKeys(localRelChanges, localKey)[i][2])]
    /\ rpc' = "delete"
    /\ UNCHANGED <<request, loaded>>
    /\ UNCHANGED <<fetchVars, treeVars, regVars, timerVars, joinVars>>

\* the deletes of the junction changes, one per junction table; the
\* transaction that the call opened commits
DeleteJunction ==
    /\ rpc = "delete"
    /\ LET junctionChanges == SelectSeq(loaded.relationChanges, isJunctionRelChange)
       IN  /\ tables' = deleteJunctions(schema, tables, junctionChanges)
           /\ rlog' = rlog \o
                groupEvents("delete", groupKeys(junctionChanges, junctionKey)) \o
                (IF request.inTransaction THEN <<>> ELSE <<RelEv("commit", "", <<>>)>>)
    /\ rpc' = "done"
    /\ UNCHANGED <<request, loaded>>
    /\ UNCHANGED <<fetchVars, treeVars, regVars, timerVars, joinVars>>

(***************************************************************************)
(* One call of setRelation or removeRelation on a database of the schema.  *)
(***************************************************************************)
RelSchemas == {sch \in Schemas : sch.rel2 = "many-to-one" /\ sch.idColumn = "id"}

\* the ids of the calls: a row, the last row, a row that no table holds,
\* and another spelling of the first row
RelIds == { <<"1">>, NumToString(MaxRowId), NumToString(MaxRowId + 1), <<"0", "1">> }

rowsOf(sch, name, n) == [1..n -> [fkColumns(sch, name) -> {NULL} \cup RowIds]]
junctionRowsOf(sch, junction) ==
    IF hasJunction(sch, junction)
    THEN SUBSET [junctionKeys(junction) -> RowIds]
    ELSE {{}}

\* the number of keys and junction rows that relate two rows
relatedCount(tbls) ==
    Cardinality({<<name, id, column>> \in {"A", "B", "C"} \X RowIds \X {"A", "B", "C"} :
                    /\ id \in DOMAIN tbls[name]
                    /\ column \in DOMAIN tbls[name][id]
                    /\ tbls[name][id][column] # NULL})
    + Cardinality(tbls.AB) + Cardinality(tbls.BC)

\* the databases: the rows 1..MaxRowId of A and B, one row of C, and at
\* most MaxRowId keys and junction rows that satisfy the constraints
Databases(sch) ==
    {tbls \in [A : rowsOf(sch, "A", MaxRowId), B : rowsOf(sch, "B", MaxRowId),
               C : rowsOf(sch, "C", 1),
               AB : junctionRowsOf(sch, "AB"), BC : junctionRowsOf(sch, "BC")] :
        keysValid(sch, tbls) /\ relatedCount(tbls) <= MaxRowId}

SetPairs == { <<"A", "B">>, <<"B", "A">>, <<"A", "C">> }
SetRequests ==
    {<<RelationChange(SpecificEntity(p[1], i), SpecificEntity(p[2], j))>> :
        p \in SetPairs, i \in RelIds, j \in RelIds}

RemovalChanges ==
    { RelationChange(SpecificEntity("A", <<"1">>), SpecificEntity("B", <<"1">>)),
      RelationChange(SpecificEntity("A", <<"1">>), SpecificEntity("B", NumToString(MaxRowId))),
      RelationChange(SpecificEntity("B", <<"1">>), SpecificEntity("A", <<"1">>)),
      RelationChange(SpecificEntity("A", NumToString(MaxRowId + 1)), SpecificEntity("B", <<"1">>)),
      RelationChange(SpecificEntity("A", <<"0", "1">>), SpecificEntity("B", <<"1">>)),
      RelationChange(SpecificEntity("B", <<"1">>), SpecificEntity("C", <<"1">>)),
      RelationChange(SpecificEntity("A", <<"1">>), SpecificEntity("C", <<"1">>)) }
\* the changes that follow the first change of a call
FollowingChanges ==
    { RelationChange(SpecificEntity("A", <<"1">>), SpecificEntity("B", NumToString(MaxRowId))),
      RelationChange(SpecificEntity("B", <<"1">>), SpecificEntity("A", <<"1">>)),
      RelationChange(SpecificEntity("B", NumToString(MaxRowId)), SpecificEntity("A", <<"1">>)),
      RelationChange(SpecificEntity("A", NumToString(MaxRowId + 1)), SpecificEntity("B", <<"1">>)),
      RelationChange(SpecificEntity("B", <<"1">>), SpecificEntity("C", <<"1">>)) }
RemoveRequests ==
    {<<first>> \o rest : first \in RemovalChanges,
                         rest \in SeqsUpTo(FollowingChanges, MaxChanges - 1)}

\* after setRelation succeeded for a many-to-many relation the caller sets
\* the relation of the same entity to another target; the earlier call
\* stays in request.changes behind the current one
SetRelationAgain ==
    /\ rpc = "done"
    /\ request.op = "setRelation"
    /\ Len(request.changes) = 1
    /\ relationOfCall.isManyToMany
    /\ \E id \in RelIds :
          /\ castToInteger(id) # castToInteger(to.id)
          /\ request' = [request EXCEPT
                            !.changes = <<RelationChange(from, SpecificEntity(to.type, id))>>
                                        \o @,
                            !.tablesAtCall = tables]
    /\ rpc' = "called"
    /\ loaded' = [ownEntity |-> NULL, targetEntity |-> NULL, relationChanges |-> <<>>,
                  assigned |-> <<>>]
    /\ rlog' = <<>>
    /\ UNCHANGED tables
    /\ UNCHANGED <<fetchVars, treeVars, regVars, timerVars, joinVars>>

NextRel ==
    \/ SetRelation
    \/ OwnFound
    \/ TargetFound
    \/ Save
    \/ SetRelationAgain
    \/ RemoveRelation
    \/ VerifyExist
    \/ UpdateLocal
    \/ DeleteJunction

InitRel ==
    /\ FetchIdle
    /\ RegIdle
    /\ TimerIdle
    /\ JoinIdle
    /\ schema \in RelSchemas
    /\ fetchNode = <<>>
    /\ queryTree = <<>>
    /\ aliasesBuilt = 0
    /\ hashes = <<>>
    /\ dbRows = <<>>
    /\ hydrated = <<>>
    /\ step = "off"
    /\ tables \in Databases(schema)
    /\ \E op \in {"setRelation", "removeRelation"} :
       \E changes \in (IF op = "setRelation" THEN SetRequests ELSE RemoveRequests) :
       \E inTransaction \in (IF op = "setRelation" THEN {TRUE} ELSE BOOLEAN) :
          request = [op |-> op, changes |-> changes, inTransaction |-> inTransaction,
                     tablesAtCall |-> tables]
    /\ rpc = "called"
    /\ loaded = [ownEntity |-> NULL, targetEntity |-> NULL, relationChanges |-> <<>>,
                 assigned |-> <<>>]
    /\ rlog = <<>>

SpecRel == InitRel /\ [][NextRel]_vars


(***************************************************************************)
(* Claims about setRelation and removeRelation.                            *)
(***************************************************************************)
IsSetCall == rpc # "off" /\ request.op = "setRelation"
IsRemoveCall == rpc # "off" /\ request.op = "removeRelation"

\* whether from.type declares a relation whose other side is to.type
HasDirectRelation ==
    \E r \in Range(ownMeta.relations) : r.inverseEntityName = to.type
\* whether the rows of the call existed when it was made
OriginExists == castToInteger(from.id) \in DOMAIN request.tablesAtCall[from.type]
TargetExists == castToInteger(to.id) \in DOMAIN request.tablesAtCall[to.type]

LogOps == [i \in DOMAIN rlog |-> rlog[i].op]
Reads == SelectSeq(rlog, LAMBDA e : e.op = "findOne")
NothingSaved == "save" \notin Range(LogOps) /\ tables = request.tablesAtCall

\* C18: setRelation fails and saves nothing when from.type has no direct
\* relation to to.type, when the origin id names no row, and when the
\* target id names no row; without a relation nothing is read, and the
\* target is read only after the origin was read and found.
C18_SetRelationFailsBeforeSaving ==
    IsSetCall =>
        /\ ~HasDirectRelation =>
              /\ rpc \in {"called", "threw"}
              /\ Reads = <<>>
              /\ NothingSaved
        /\ HasDirectRelation /\ ~OriginExists =>
              /\ rpc \in {"called", "findOwn", "threw"}
              /\ Len(Reads) <= 1
              /\ NothingSaved
        /\ HasDirectRelation /\ OriginExists /\ ~TargetExists =>
              /\ rpc \in {"called", "findOwn", "findTarget", "threw"}
              /\ NothingSaved
        /\ \A k \in DOMAIN Reads :
              Reads[k] = IF k = 1 THEN RelEv("findOne", from.type, from.id)
                         ELSE RelEv("findOne", to.type, to.id)
        /\ Len(Reads) <= 2
        /\ Len(Reads) = 2 => OriginExists

\* a call with a relation and an origin row whose target id names no row
\* has read both and failed
C18_Witness ==
    /\ IsSetCall
    /\ rpc = "threw"
    /\ HasDirectRelation /\ OriginExists /\ ~TargetExists
    /\ LogOps = <<"findOne", "findOne", "throw">>

\* the value fetchEntities reports under the id property of the relation
\* for the row `id`: a number for a to-one relation (null when no row is
\* related), the ascending array of the related ids for a to-many relation
RECURSIVE ascending(_)
ascending(S) ==
    IF S = {} THEN <<>>
    ELSE LET least == CHOOSE x \in S : \A y \in S : x <= y
         IN  <<JNum(least)>> \o ascending(S \ {least})
reportedIds(tbls, relation, id) ==
    IF relation.isOneToMany \/ relation.isManyToMany
    THEN JArr(ascending(relatedIds(tbls, relation, id)))
    ELSE IF relatedIds(tbls, relation, id) = {} THEN JsonNull
    ELSE JNum(CHOOSE x \in relatedIds(tbls, relation, id) : TRUE)

\* the table that holds the key of a relation: the table of the side that
\* owns it, or the side the junction rows are saved through
keyHolder(relation) ==
    IF relation.isOwning \/ relation.isManyToMany THEN relation.entityName
    ELSE relation.inverseEntityName

SaveEvents == SelectSeq(rlog, LAMBDA e : e.op = "save")

\* C19: after setRelation succeeds, for each kind of relation, fetching
\* `from` reports to.id under the id property of the relation (the value
\* itself for a to-one relation, an element of the array for a to-many
\* relation), and the one save is made on the row that holds the foreign
\* key: the target row for one-to-owner and one-to-many, the own row
\* otherwise.
C19_SetRelationIsFetched ==
    IsSetCall /\ rpc = "done" =>
        LET reported == reportedIds(tables, relationOfCall, castToInteger(from.id))
        IN  /\ IF relationOfCall.isOneToMany \/ relationOfCall.isManyToMany
               THEN JNum(castToInteger(to.id)) \in Range(reported.arr)
               ELSE reported = JNum(castToInteger(to.id))
            /\ Len(SaveEvents) = 1
            /\ SaveEvents[1].target = keyHolder(relationOfCall)
            /\ SaveEvents[1].target =
                  IF relationOfCall.kind \in {"one-to-owner", "one-to-many"}
                  THEN to.type ELSE from.type
            /\ SaveEvents[1].id = IF SaveEvents[1].target = to.type THEN to.id ELSE from.id

\* a one-to-many relation was set from a row to a target that referenced
\* another row
C19_Witness ==
    /\ IsSetCall
    /\ rpc = "done"
    /\ relationOfCall.kind = "one-to-many"
    /\ relatedIds(request.tablesAtCall, relationOfCall, castToInteger(from.id)) # {}
    /\ castToInteger(to.id) \notin
          relatedIds(request.tablesAtCall, relationOfCall, castToInteger(from.id))
    /\ tables # request.tablesAtCall

\* whether an entity of the call names no row
SomeMissing ==
    \E i \in DOMAIN entitiesOf(request.changes) :
        castToInteger(entitiesOf(request.changes)[i].id) \notin
            DOMAIN request.tablesAtCall[entitiesOf(request.changes)[i].type]

\* C20: removeRelation reads the entities of every table of the call
\* before any update or junction delete, and if an entity of the call does
\* not exist the call fails and no key is nulled and no junction row is
\* deleted.
C20_VerifiedBeforeAnyWrite ==
    IsRemoveCall =>
        /\ \A k \in DOMAIN rlog :
              rlog[k].op \in {"update", "delete"} =>
                  /\ \A i \in DOMAIN entitiesOf(request.changes) :
                        \E j \in 1..(k - 1) :
                            rlog[j] = RelEv("find", entitiesOf(request.changes)[i].type, <<>>)
                  /\ ~SomeMissing
        /\ rpc \in {"update", "delete", "done"} => "find" \in Range(LogOps)
        /\ SomeMissing =>
              /\ rpc \in {"called", "verify", "threw"}
              /\ tables = request.tablesAtCall
              /\ Range(LogOps) \cap {"update", "delete"} = {}

\* a call of two changes, the first between related rows and the second
\* with an id that names no row, has failed
C20_Witness ==
    /\ IsRemoveCall
    /\ rpc = "threw"
    /\ Len(request.changes) = 2
    /\ IsRelation(relationOf(schema, request.changes[1]))
    /\ hasRow(tables, request.changes[1].from.type, request.changes[1].from.id)
    /\ castToInteger(request.changes[1].to.id) \in
          relatedIds(tables, relationOf(schema, request.changes[1]),
                     castToInteger(request.changes[1].from.id))
    /\ SomeMissing
    /\ "find" \in Range(LogOps)


(***************************************************************************)
(* The registry of relation id properties.  A PropMapping is an object:    *)
(* propMappings holds the objects, and entityMarkers and the cache hold    *)
(* references (indexes) to them, so that a write through one reference is  *)
(* seen through the other.                                                 *)
(***************************************************************************)
MaxObjects == 2     \* PropMapping objects created in a process
MaxEvents == 4      \* registrations and lookups recorded

\* the classes; X is not an entity of the connection
MarkedClasses == {"A", "X"}
hasMetadata(class) == class = "A"
\* the relation properties and the properties that RelationIdMarker decorates
ForPropNames == {"B", "C"}
\* the decorators applied: <<class, forPropName, propertyName>>
Registrations ==
    { <<"A", "B", "BId">>, <<"A", "B", "bRef">>, <<"A", "C", "CId">>,
      <<"X", "B", "BId">>, <<"X", "C", "CId">> }

RegEv(op, class, prop, name) == [op |-> op, class |-> class, prop |-> prop, name |-> name]
Thrown == "#throw"

\* mapped[forPropName] = propertyName
setMarker_Every(mapped, forPropName, propertyName) ==
    [k \in DOMAIN mapped \cup {forPropName} |-> propertyName]
setMarker(mapped, forPropName, propertyName) ==
    [k \in DOMAIN mapped \cup {forPropName} |->
        IF k = forPropName THEN propertyName ELSE mapped[k]]

\* RelationIdMarker(forPropName)(object, propertyName) for a property of
\* the class: the object of the class, or a new one, is written and set
RelationIdMarker ==
    /\ tpc = "off" /\ rpc = "off" /\ step = "off"
    /\ mappedProps # <<>>
    /\ Len(lookups) < MaxEvents
    /\ \E registration \in Registrations :
       LET class == registration[1]
           forPropName == registration[2]
           propertyName == registration[3]
       IN /\ IF class \in DOMAIN entityMarkers
             THEN /\ propMappings' =
                        [propMappings EXCEPT ![entityMarkers[class]] =
                            setMarker(@, forPropName, propertyName)]
                  /\ UNCHANGED entityMarkers
             ELSE /\ Len(propMappings) < MaxObjects
                  /\ propMappings' =
                        Append(propMappings, setMarker(<<>>, forPropName, propertyName))
                  /\ entityMarkers' =
                        [c \in DOMAIN entityMarkers \cup {class} |->
                            IF c = class THEN Len(propMappings) + 1 ELSE entityMarkers[c]]
          /\ lookups' = Append(lookups, RegEv("mark", class, forPropName, propertyName))
    /\ UNCHANGED mappedProps
    /\ UNCHANGED <<fetchVars, treeVars, relVars, timerVars, joinVars>>

\* getMappedMarkers(connection): the cache, built on the first call from
\* the marked classes that are entities of the connection
getMappedMarkers(cache, markers) ==
    IF ~IsNull(cache) THEN cache
    ELSE [class \in {c \in DOMAIN markers : hasMetadata(c)} |-> markers[class]]

\* getIdPropertyName(meta, propertyName) with the cache of the call
idPropertyNameOf(cache, objects, class, propertyName) ==
    IF class \notin DOMAIN cache THEN Thrown
    ELSE IF propertyName \notin DOMAIN objects[cache[class]] THEN Thrown
    ELSE objects[cache[class]][propertyName]

\* getIdPropertyName(meta, propertyName) for the metadata of an entity
GetIdPropertyName ==
    /\ tpc = "off" /\ rpc = "off" /\ step = "off"
    /\ mappedProps # <<>>
    /\ Len(lookups) < MaxEvents
    /\ \E class \in {c \in MarkedClasses : hasMetadata(c)}, propertyName \in ForPropNames :
          /\ mappedProps' = getMappedMarkers(mappedProps, entityMarkers)
          /\ lookups' = Append(lookups,
                RegEv("lookup", class, propertyName,
                      idPropertyNameOf(mappedProps', propMappings, class, propertyName)))
    /\ UNCHANGED <<entityMarkers, propMappings>>
    /\ UNCHANGED <<fetchVars, treeVars, relVars, timerVars, joinVars>>

\* unsetRelationIdMarkerTarget(target), the testing helper; the record of
\* lookups starts anew
UnsetRelationIdMarkerTarget ==
    /\ tpc = "off" /\ rpc = "off" /\ step = "off"
    /\ mappedProps # <<>>
    /\ \E target \in DOMAIN entityMarkers :
          entityMarkers' = [c \in DOMAIN entityMarkers \ {target} |-> entityMarkers[c]]
    /\ lookups' = <<>>
    /\ UNCHANGED <<propMappings, mappedProps>>
    /\ UNCHANGED <<fetchVars, treeVars, relVars, timerVars, joinVars>>

\* dropMappedPropsCache(), the testing helper; the record of lookups
\* starts anew
DropMappedPropsCache ==
    /\ tpc = "off" /\ rpc = "off" /\ step = "off"
    /\ mappedProps # <<>>
    /\ ~IsNull(mappedProps)
    /\ mappedProps' = JsonNull
    /\ lookups' = <<>>
    /\ UNCHANGED <<entityMarkers, propMappings>>
    /\ UNCHANGED <<fetchVars, treeVars, relVars, timerVars, joinVars>>

NextReg ==
    \/ RelationIdMarker
    \/ GetIdPropertyName
    \/ UnsetRelationIdMarkerTarget
    \/ DropMappedPropsCache

\* a process that has loaded no class
InitReg ==
    /\ FetchIdle
    /\ TreeIdle
    /\ RelIdle
    /\ TimerIdle
    /\ JoinIdle
    /\ entityMarkers = <<>>
    /\ propMappings = <<>>
    /\ mappedProps = JsonNull
    /\ lookups = <<>>

SpecReg == InitReg /\ [][NextReg]_vars

\* the lookups of one pair that returned a name
IsLookup(e) == e.op = "lookup"
SamePair(e, f) == e.class = f.class /\ e.prop = f.prop

\* C21: once getIdPropertyName has returned a name for a pair, every later
\* lookup of the pair returns a name, and the same name unless the class
\* was marked again for that property in between (the test reset hooks
\* excluded); then it returns the name of the last such registration.
C21_StableUnlessMarkedAgain ==
    \A i, j \in DOMAIN lookups :
        /\ i < j
        /\ IsLookup(lookups[i]) /\ IsLookup(lookups[j])
        /\ SamePair(lookups[i], lookups[j])
        /\ lookups[i].name # Thrown
        => /\ lookups[j].name # Thrown
           /\ lookups[j].name # lookups[i].name =>
                 \E k \in (i + 1)..(j - 1) :
                     /\ lookups[k].op = "mark"
                     /\ SamePair(lookups[k], lookups[j])
                     /\ lookups[k].name = lookups[j].name

\* a pair was looked up twice, a registration of another class and of
\* another property of the class in between
C21_Witness ==
    \E i, j \in DOMAIN lookups :
        /\ i + 2 < j
        /\ IsLookup(lookups[i]) /\ IsLookup(lookups[j])
        /\ SamePair(lookups[i], lookups[j])
        /\ lookups[i].name # Thrown
        /\ lookups[j].name = lookups[i].name
        /\ \A k \in (i + 1)..(j - 1) :
              lookups[k].op = "mark" /\ ~SamePair(lookups[k], lookups[i])

\* C21 as stated: every later lookup of a pair returns the name that the
\* first returned, whatever was registered in between.
C21_AsStated ==
    \A i, j \in DOMAIN lookups :
        /\ i < j
        /\ IsLookup(lookups[i]) /\ IsLookup(lookups[j])
        /\ SamePair(lookups[i], lookups[j])
        /\ lookups[i].name # Thrown
        => lookups[j].name = lookups[i].name


(***************************************************************************)
(* Claims about the shape of the query tree.                               *)
(***************************************************************************)
\* the entries of a nested list that name the inverse table of a relation
NamedBy(nested, rel) ==
    {k \in DOMAIN nested : tableNameOf(nested[k].type) = rel.inverseTableName}

\* the query node is the data node of the fetch node: one child per
\* relation of the entity, in their order, a data node of the first entry
\* that names the relation and an ids node without children otherwise
RECURSIVE IsDataNodeOf(_, _, _)
IsDataNodeOf(sch, qnode, fnode) ==
    /\ isDataNode(qnode)
    /\ qnode.meta = getMetadataOf(sch, fnode.type)
    /\ Len(qnode.nested) = Len(qnode.meta.relations)
    /\ \A i \in DOMAIN qnode.nested :
          LET rel == qnode.meta.relations[i]
              child == qnode.nested[i]
              named == NamedBy(fnode.nested, rel)
          IN  /\ child.meta.tableName = rel.inverseTableName
              /\ IF named # {}
                 THEN IsDataNodeOf(sch, child,
                                   fnode.nested[CHOOSE k \in named : \A l \in named : k <= l])
                 ELSE isIdNode(child) /\ child.nested = <<>>

\* C22: in every query tree the root is a data node, every data node has
\* exactly one child per relation of its entity, in the order of the
\* relations, a data node if an entry of the nested list of its fetch node
\* names the inverse table of the relation and an ids node otherwise, and
\* an ids node has no children.
C22_OneChildPerRelation ==
    queryTree # <<>> /\ rpc = "off" /\ tpc = "off" =>
        IsDataNodeOf(schema, queryTree, fetchNode)

\* a tree with a data child that has a data child and an ids child
C22_Witness ==
    /\ queryTree # <<>>
    /\ step = "built"
    /\ \E i \in DOMAIN queryTree.nested :
          /\ isDataNode(queryTree.nested[i])
          /\ \E j, k \in DOMAIN queryTree.nested[i].nested :
                /\ isDataNode(queryTree.nested[i].nested[j])
                /\ isIdNode(queryTree.nested[i].nested[k])


(***************************************************************************)
(* Claims about the batches of a fetch.                                    *)
(***************************************************************************)
SqlKinds == {"probe", "create", "call", "raw"}

\* the onRequest calls among the first i entries of the log of a fetch
RequestsUpTo(p, i) ==
    Cardinality({j \in 1..i : log[p][j].kind = "onRequest"})

\* the k-th run of at most MAX_FN_ARGUMENTS consecutive elements of a list
RunOf(list, k) ==
    [i \in 1..((IF k * MAX_FN_ARGUMENTS < Len(list) THEN k * MAX_FN_ARGUMENTS
                ELSE Len(list)) - (k - 1) * MAX_FN_ARGUMENTS) |->
        list[(k - 1) * MAX_FN_ARGUMENTS + i]]

\* the run that holds an id of the list
RunWith(list, id) ==
    ((CHOOSE i \in DOMAIN list : list[i] = id) - 1) \div MAX_FN_ARGUMENTS + 1

\* C23: the batches of one fetch run one after the other: every SQL
\* statement carries the ids of the batch whose onRequest call was the last
\* before it, onRequest of a batch is called only after the batch before it
\* has resolved, and the rows accumulated for hydration are those of the
\* resolved batches in the order of the batches.
C23_BatchesInSequence ==
    \A p \in Procs :
        pc[p] \notin {"off", "idle", "threw"} =>
            /\ \A i \in DOMAIN log[p] :
                  log[p][i].kind \in SqlKinds =>
                      /\ RequestsUpTo(p, i) >= 1
                      /\ log[p][i].args = RunOf(uniqIds[p], RequestsUpTo(p, i))
            /\ RequestsUpTo(p, Len(log[p])) =
                  IF pc[p] \in {"probed", "created", "rejected"} THEN batchNo[p]
                  ELSE batchNo[p] - 1
            /\ \A i \in DOMAIN prevRes[p] :
                  /\ prevRes[p][i].id \in Range(uniqIds[p])
                  /\ RunWith(uniqIds[p], prevRes[p][i].id) < batchNo[p]
                  /\ i < Len(prevRes[p]) =>
                        RunWith(uniqIds[p], prevRes[p][i].id)
                            <= RunWith(uniqIds[p], prevRes[p][i + 1].id)
            /\ pc[p] \in {"fetched", "commit", "done"} =>
                  batchNo[p] = NumChunks(uniqIds[p], MAX_FN_ARGUMENTS) + 1

\* a fetch of more than one batch has resolved, with rows of two batches
C23_Witness ==
    \E p \in Procs :
        /\ pc[p] = "done"
        /\ RequestsUpTo(p, Len(log[p])) >= 2
        /\ \E i, j \in DOMAIN prevRes[p] :
              /\ RunWith(uniqIds[p], prevRes[p][i].id) = 1
              /\ RunWith(uniqIds[p], prevRes[p][j].id) = 2


(***************************************************************************)
(* A statement that the database rejects.  fetchNodes attaches no handler  *)
(* to the queries of a batch: the rejection passes through the remaining   *)
(* steps of the reduce, whose callbacks are skipped, to the rejection      *)
(* handler that stops the timer and throws again, and out of execute.      *)
(***************************************************************************)
\* the statement in flight for fetch p
statementInFlight(p) ==
    LET idsBatch == idsBatchOf(p)
        storedFn == storedFnName(rootNodeOf(p), idsBatch)
    IN  IF pc[p] = "batch"
        THEN Ev("probe", storedFn, idsBatch, checkerFnName(Len(idsBatch)), "error")
        ELSE IF pc[p] = "created"
        THEN Ev("call", storedFn, idsBatch, <<>>, "error")
        ELSE IF isTransactionActive(p)
        THEN Ev("raw", <<>>, idsBatch, <<>>, "error")
        ELSE Ev("create", storedFn, idsBatch, safeCreateFnName, "error")

\* the rejection caught: the batch counts as one without rows
SqlFails_Swallowed(p) ==
    /\ \/ pc[p] = "batch" /\ ~storedFnNameThrows(rootNodeOf(p), idsBatchOf(p))
       \/ pc[p] = "probed" /\ IsMissingResponse(probeRows[p])
       \/ pc[p] = "created"
    /\ log' = [log EXCEPT ![p] =
                  IF pc[p] = "batch"
                  THEN @ \o onRequestThenQuery(statementInFlight(p))
                  ELSE Append(@, statementInFlight(p))]
    /\ Concat(p, <<>>)
    /\ UNCHANGED <<existing, catalog, isDevEnv, entity, ids, outerTx, ownTx,
                   numericIds, uniqIds, result, startCatalog, doneBefore>>
    /\ UNCHANGED <<treeVars, relVars, regVars, timerVars, joinVars>>

\* entityManager.query rejects: the probe, the raw query, the creation of
\* the function or its direct call
SqlFails(p) ==
    /\ \/ pc[p] = "batch" /\ ~storedFnNameThrows(rootNodeOf(p), idsBatchOf(p))
       \/ pc[p] = "probed" /\ IsMissingResponse(probeRows[p])
       \/ pc[p] = "created"
    /\ log' = [log EXCEPT ![p] =
                  IF pc[p] = "batch"
                  THEN @ \o onRequestThenQuery(statementInFlight(p))
                  ELSE Append(@, statementInFlight(p))]
    /\ pc' = [pc EXCEPT ![p] = "rejected"]
    /\ UNCHANGED <<existing, catalog, isDevEnv, entity, ids, outerTx, ownTx,
                   numericIds, uniqIds, batchNo, prevRes, probeRows, result,
                   startCatalog, doneBefore>>
    /\ UNCHANGED <<treeVars, relVars, regVars, timerVars, joinVars>>

NextFail ==
    \/ Next
    \/ \E p \in Procs : SqlFails(p)

\* one fetch against a database that may reject any statement
SpecFail == Init /\ [][NextFail]_vars

\* C24: a rejected statement is the last entry of the log of its fetch, the
\* fetch is rejected, and a rejected fetch returns no rows, whatever the
\* batches before the failing one brought.
C24_FailureRejectsTheFetch ==
    \A p \in Procs :
        /\ \A i \in DOMAIN log[p] :
              log[p][i].note = "error" => i = Len(log[p]) /\ pc[p] = "rejected"
        /\ pc[p] = "rejected" => result[p] = <<>>

\* a statement of the second batch was rejected after the first batch
\* brought rows
C24_Witness ==
    \E p \in Procs :
        /\ pc[p] = "rejected"
        /\ log[p] # <<>>
        /\ log[p][Len(log[p])].note = "error"
        /\ log[p][Len(log[p])].kind \in {"raw", "call", "create"}
        /\ batchNo[p] = 2
        /\ prevRes[p] # <<>>


(***************************************************************************)
(* The observability timers of a fetch.  new Timer(name, context) starts   *)
(* a timer and stop() ends it; timers holds the timers of the fetch in     *)
(* the order of their creation.                                            *)
(***************************************************************************)
MaxTimedBatches == 2

EntityBuilder_buildQueryTree == "buildQueryTree"
EntityBuilder_GenerateQuery == "generateQuery"
EntityBuilder_FetchNodes == "fetchNodes"
EntityBuilder_Hydrate == "hydrate"

\* new Timer(name, ...)
newTimer(list, name) == Append(list, [name |-> name, running |-> TRUE])

\* stop() left out
stopTimer_Never(list, i) == list

\* timer.stop() of the i-th timer
stopTimer(list, i) == [list EXCEPT ![i].running = FALSE]

\* the runQueryTimer of fetchNodes: the second timer of a fetch
runQueryTimer == 2

\* _buildQueryTree throws when connection.getMetadata throws for the type
\* of a nested fetch node
buildQueryTreeThrows(input) ==
    \E i \in DOMAIN input.nested : ~hasMetadata(input.nested[i])

\* _generateQuery and hydrateResults call getIdPropertyName(node.meta,
\* relation.propertyName) for the relation of a child node
getIdPropertyNameThrows(input) ==
    idPropertyNameOf(getMappedMarkers(JsonNull, input.entityMarkers),
                     input.propMappings, "A", "B") = Thrown

\* the rejection handler of fetchNodes: runQueryTimer.stop(); throw e
rejectFetchNodes(list) == stopTimer(list, runQueryTimer)

\* generateQuery: new Timer, _generateQuery, timer.stop()
generateQueryTimed(list, input) ==
    IF getIdPropertyNameThrows(input)
    THEN newTimer(list, EntityBuilder_GenerateQuery)
    ELSE stopTimer(newTimer(list, EntityBuilder_GenerateQuery), Len(list) + 1)

\* execute up to the first suspension: buildQueryTree, then fetchNodes
\* creates its timer and the first step of the reduce is queued
TimedExecute ==
    /\ tpc = "idle"
    /\ IF buildQueryTreeThrows(tinput)
       THEN /\ timers' = newTimer(timers, EntityBuilder_buildQueryTree)
            /\ tpc' = "rejected"
            /\ UNCHANGED tbatch
       ELSE /\ timers' = newTimer(stopTimer(newTimer(timers, EntityBuilder_buildQueryTree),
                                            Len(timers) + 1),
                                  EntityBuilder_FetchNodes)
            /\ tpc' = "probe"
            /\ tbatch' = 1
    /\ UNCHANGED tinput
    /\ UNCHANGED <<fetchVars, treeVars, relVars, regVars, joinVars>>

\* the batch resolved: the next step of the reduce, or its end
timedNextBatch ==
    IF tbatch < tinput.batches
    THEN tbatch' = tbatch + 1 /\ tpc' = "probe"
    ELSE tpc' = "fetched" /\ UNCHANGED tbatch

\* the probe of a batch settles: rows, the answer that the function is
\* missing (generateQuery runs for the raw query or for createStoredFn), or
\* a rejection
TimedProbe ==
    /\ tpc = "probe"
    /\ \E outcome \in {"found", "missing", "error"} :
          IF outcome = "found"
          THEN timedNextBatch /\ UNCHANGED timers
          ELSE IF outcome = "error"
          THEN /\ timers' = rejectFetchNodes(timers)
               /\ tpc' = "rejected"
               /\ UNCHANGED tbatch
          ELSE IF getIdPropertyNameThrows(tinput)
          THEN /\ timers' = rejectFetchNodes(generateQueryTimed(timers, tinput))
               /\ tpc' = "rejected"
               /\ UNCHANGED tbatch
          ELSE /\ timers' = generateQueryTimed(timers, tinput)
               /\ tpc' = IF tinput.inTransaction THEN "raw" ELSE "create"
               /\ UNCHANGED tbatch
    /\ UNCHANGED tinput
    /\ UNCHANGED <<fetchVars, treeVars, relVars, regVars, joinVars>>

\* the raw query, the creation of the function or its direct call settles
TimedQuery ==
    /\ tpc \in {"raw", "create", "call"}
    /\ \E resolved \in BOOLEAN :
          IF ~resolved
          THEN /\ timers' = rejectFetchNodes(timers)
               /\ tpc' = "rejected"
               /\ UNCHANGED tbatch
          ELSE IF tpc = "create"
          THEN tpc' = "call" /\ UNCHANGED <<timers, tbatch>>
          ELSE timedNextBatch /\ UNCHANGED timers
    /\ UNCHANGED tinput
    /\ UNCHANGED <<fetchVars, treeVars, relVars, regVars, joinVars>>

\* the fulfilment handler of fetchNodes: runQueryTimer.stop(), new
\* Timer(EntityBuilder_Hydrate), hydrateResults, hydrateTimer.stop()
TimedHydrate ==
    /\ tpc = "fetched"
    /\ IF getIdPropertyNameThrows(tinput)
       THEN /\ timers' = newTimer(stopTimer(timers, runQueryTimer), EntityBuilder_Hydrate)
            /\ tpc' = "rejected"
       ELSE /\ timers' = stopTimer(newTimer(stopTimer(timers, runQueryTimer),
                                            EntityBuilder_Hydrate),
                                   Len(timers) + 1)
            /\ tpc' = "done"
    /\ UNCHANGED <<tbatch, tinput>>
    /\ UNCHANGED <<fetchVars, treeVars, relVars, regVars, joinVars>>

NextTimers ==
    \/ TimedExecute
    \/ TimedProbe
    \/ TimedQuery
    \/ TimedHydrate

\* the nested fetch nodes of the request: none, an entity of the
\* connection, a class that is not one
TimedNested == { <<>>, <<"A">>, <<"A", "X">> }

\* the registry at the fetch: the relation B of A marked, or nothing marked
TimedRegistries ==
    { [entityMarkers |-> [c \in {"A"} |-> 1],
       propMappings |-> << setMarker(<<>>, "B", "BId") >>],
      [entityMarkers |-> <<>>, propMappings |-> <<>>] }

InitTimers ==
    /\ FetchIdle
    /\ TreeIdle
    /\ RelIdle
    /\ RegIdle
    /\ JoinIdle
    /\ timers = <<>>
    /\ tpc = "idle"
    /\ tbatch = 0
    /\ \E nested \in TimedNested, registry \in TimedRegistries,
          batches \in 1..MaxTimedBatches, inTransaction \in BOOLEAN :
          tinput = [nested |-> nested,
                    entityMarkers |-> registry.entityMarkers,
                    propMappings |-> registry.propMappings,
                    batches |-> batches,
                    inTransaction |-> inTransaction]

SpecTimers == InitTimers /\ [][NextTimers]_vars

TimedSettled == tpc \in {"done", "rejected"}
RunningTimers == {i \in DOMAIN timers : timers[i].running}

\* C25: when the fetch has settled the fetch-nodes timer is stopped, and a
\* timer still runs only if the fetch was rejected by a throw of the step
\* it times: it is then the last timer created, and it is not the
\* fetch-nodes timer.
C25_StoppedUnlessOwnStepThrew ==
    TimedSettled =>
        /\ \A i \in RunningTimers :
              /\ timers[i].name # EntityBuilder_FetchNodes
              /\ i = Len(timers)
              /\ tpc = "rejected"
              /\ IF timers[i].name = EntityBuilder_buildQueryTree
                 THEN buildQueryTreeThrows(tinput)
                 ELSE getIdPropertyNameThrows(tinput)
        /\ tpc = "done" => RunningTimers = {}

\* generateQuery threw in the second batch: its timer runs on, the
\* fetch-nodes timer was stopped by the rejection handler
C25_Witness ==
    /\ tpc = "rejected"
    /\ tbatch = 2
    /\ RunningTimers = {Len(timers)}
    /\ timers[Len(timers)].name = EntityBuilder_GenerateQuery
    /\ ~timers[runQueryTimer].running

\* C25 as stated: no timer runs once the fetch has settled
C25_AsStated == TimedSettled => RunningTimers = {}


(***************************************************************************)
(* The joins built for a one-to-many child: selectManyRemoteIds for an     *)
(* ids child, joinUsingMultipleRemoteIds for a data child.  A join is kept *)
(* as the column references of its clauses, <<alias, column>>, and is run  *)
(* over the rows of the two tables.                                        *)
(***************************************************************************)
MaxJoinId == 2      \* rows of the node's table and of the child's table

IdColumnNames == {"id", "uid"}

\* the metadata the builders read: node is the parent, childNode the
\* one-to-many child whose table holds the foreign key keyName;
\* backlinkIdPropertyName is the id property registered for the child's
\* relation to the parent
JoinMetas ==
    { [node |-> [alias |-> "p", idColumn |-> own, columns |-> {own} \cup extra],
       childNode |-> [alias |-> "c", idColumn |-> remote],
       keyName |-> "parentId",
       backlinkIdPropertyName |-> "parentRef"] :
         own \in IdColumnNames, remote \in IdColumnNames,
         extra \in {{}, IdColumnNames} }

ownIdColumnOf(m) == getIdColumn(m.node)
remoteIdColumnOf(m) == getIdColumn(m.childNode)
joinAliasOf(m) == m.childNode.alias \o "_join"
aggregateAliasOf(m) == m.childNode.alias \o "_aggregate"

\* selectManyRemoteIds: the subselect over the child's table and the
\* condition of the left join
selectManyRemoteIds(m) ==
    [builder |-> "selectManyRemoteIds",
     from |-> "table",
     aggregated |-> remoteIdColumnOf(m),
     where |-> [left |-> <<m.childNode.alias, m.keyName>>,
                right |-> <<m.node.alias, remoteIdColumnOf(m)>>],
     groupBy |-> <<m.childNode.alias, m.keyName>>,
     on |-> [left |-> <<m.node.alias, ownIdColumnOf(m)>>,
             right |-> <<joinAliasOf(m), m.keyName>>]]

\* joinUsingMultipleRemoteIds: the subselect over the rows of the child's
\* own query and the condition of the left join
joinUsingMultipleRemoteIds(m) ==
    [builder |-> "joinUsingMultipleRemoteIds",
     from |-> "subquery",
     aggregated |-> remoteIdColumnOf(m),
     where |-> [left |-> <<aggregateAliasOf(m), m.backlinkIdPropertyName>>,
                right |-> <<m.node.alias, remoteIdColumnOf(m)>>],
     groupBy |-> <<aggregateAliasOf(m), m.backlinkIdPropertyName>>,
     on |-> [left |-> <<m.node.alias, ownIdColumnOf(m)>>,
             right |-> <<joinAliasOf(m), m.backlinkIdPropertyName>>]]

\* the rows the subselect reads: the child's table, or the rows of the
\* child's query, which carry the foreign key as backlinkIdPropertyName
sourceRows(m, query, children) ==
    IF query.from = "table" THEN Range(children)
    ELSE { [col \in {remoteIdColumnOf(m), m.backlinkIdPropertyName} |->
               IF col = m.backlinkIdPropertyName THEN c[m.keyName] ELSE c[col]] :
           c \in Range(children) }

\* the statement run by the database: a reference to a column that the
\* node's table does not have is an error; otherwise, for every row of the
\* node, the subselect keeps the source rows that satisfy its WHERE, groups
\* them, and the group is joined when ON holds
runJoin(m, query, rows) ==
    IF query.where.right[2] \notin m.node.columns
    THEN [error |-> TRUE, ids |-> <<>>]
    ELSE [error |-> FALSE,
          ids |-> [i \in DOMAIN rows.parents |->
                     LET parent == rows.parents[i]
                         kept == {c \in sourceRows(m, query, rows.children) :
                                     c[query.where.left[2]] = parent[query.where.right[2]]}
                     IN  {c[query.aggregated] :
                            c \in {k \in kept :
                                     parent[query.on.left[2]] = k[query.groupBy[2]]}}]]

\* the node is given an ids child
SelectManyRemoteIds ==
    /\ jmeta # <<>>
    /\ jquery = <<>>
    /\ jquery' = selectManyRemoteIds(jmeta)
    /\ UNCHANGED <<jmeta, jrows, jresult>>
    /\ UNCHANGED <<fetchVars, treeVars, relVars, regVars, timerVars>>

\* the node is given a data child
JoinUsingMultipleRemoteIds ==
    /\ jmeta # <<>>
    /\ jquery = <<>>
    /\ jquery' = joinUsingMultipleRemoteIds(jmeta)
    /\ UNCHANGED <<jmeta, jrows, jresult>>
    /\ UNCHANGED <<fetchVars, treeVars, relVars, regVars, timerVars>>

\* entityManager.query runs the statement
RunJoin ==
    /\ jquery # <<>>
    /\ jresult = <<>>
    /\ jresult' = runJoin(jmeta, jquery, jrows)
    /\ UNCHANGED <<jmeta, jrows, jquery>>
    /\ UNCHANGED <<fetchVars, treeVars, relVars, regVars, timerVars>>

NextJoin ==
    \/ SelectManyRemoteIds
    \/ JoinUsingMultipleRemoteIds
    \/ RunJoin

\* the rows of the node's table have the keys 1..MaxJoinId and any values
\* in their other columns; a child row has the key 10 + k and a foreign key
\* that is NULL or the key of a row of the node
JoinRows(m) ==
    { [parents |-> [i \in 1..MaxJoinId |->
                      [col \in m.node.columns |->
                          IF col = ownIdColumnOf(m) THEN i ELSE other[i]]],
       children |-> [k \in 1..MaxJoinId |->
                      [col \in {remoteIdColumnOf(m), m.keyName} |->
                          IF col = m.keyName THEN fk[k] ELSE 10 + k]]] :
        other \in [1..MaxJoinId -> 1..MaxJoinId],
        fk \in [1..MaxJoinId -> {NULL} \cup (1..MaxJoinId)] }

InitJoin ==
    /\ FetchIdle
    /\ TreeIdle
    /\ RelIdle
    /\ RegIdle
    /\ TimerIdle
    /\ jmeta \in JoinMetas
    /\ jrows \in JoinRows(jmeta)
    /\ jquery = <<>>
    /\ jresult = <<>>

SpecJoin == InitJoin /\ [][NextJoin]_vars

\* the keys of the child rows whose foreign key is the key of the i-th row
\* of the node
childrenOf(i) ==
    { jrows.children[k][remoteIdColumnOf(jmeta)] :
        k \in {c \in DOMAIN jrows.children :
                 jrows.children[c][jmeta.keyName]
                    = jrows.parents[i][ownIdColumnOf(jmeta)]} }

\* C26: the join's ON compares the foreign key or backlink id with the
\* node's own primary-key column, and the subselect's WHERE compares it
\* with the column of the node that has the name of the child's
\* primary-key column; when the two names are the same the join gives every
\* row of the node the keys of exactly its child rows.
C26_SubselectByChildKeyName ==
    jquery # <<>> =>
        /\ jquery.on.left = <<jmeta.node.alias, ownIdColumnOf(jmeta)>>
        /\ jquery.where.right = <<jmeta.node.alias, remoteIdColumnOf(jmeta)>>
        /\ jquery.where.left[2] = jquery.on.right[2]
        /\ jresult # <<>> /\ ownIdColumnOf(jmeta) = remoteIdColumnOf(jmeta) =>
              /\ ~jresult.error
              /\ \A i \in DOMAIN jrows.parents : jresult.ids[i] = childrenOf(i)

\* a join was run for a node with two child rows, the key columns having
\* the same name
C26_Witness ==
    /\ jresult # <<>>
    /\ ownIdColumnOf(jmeta) = remoteIdColumnOf(jmeta)
    /\ ~jresult.error
    /\ \E i \in DOMAIN jrows.parents : Cardinality(jresult.ids[i]) = 2

\* C26 as stated: WHERE and ON both compare with the node's own
\* primary-key column, and the join gives every row of the node the keys
\* of exactly its child rows, whatever the names of the key columns
C26_AsStated ==
    jquery # <<>> =>
        /\ jquery.on.left = <<jmeta.node.alias, ownIdColumnOf(jmeta)>>
        /\ jquery.where.right = <<jmeta.node.alias, ownIdColumnOf(jmeta)>>
        /\ jresult # <<>> =>
              /\ ~jresult.error
              /\ \A i \in DOMAIN jrows.parents : jresult.ids[i] = childrenOf(i)


(***************************************************************************)
(* Claims about what setRelation and removeRelation leave alone.           *)
(***************************************************************************)
IsSecondSet == IsSetCall /\ Len(request.changes) = 2
relatedAtCall == relatedIds(request.tablesAtCall, relationOfCall, castToInteger(from.id))
relatedNow == relatedIds(tables, relationOfCall, castToInteger(from.id))

\* C27: when setRelation succeeds on a many-to-many relation, the array
\* saved for `from` holds the target of the call and nothing else, the
\* target is related to `from` afterwards, and the targets related before
\* the call either all stay related or are all unrelated.
C27_SavedArrayIsTheTarget ==
    IsSetCall /\ rpc = "done" /\ relationOfCall.isManyToMany =>
        /\ loaded.assigned = <<castToInteger(to.id)>>
        /\ castToInteger(to.id) \in relatedNow
        /\ relatedNow \in {relatedAtCall \cup {castToInteger(to.id)}, {castToInteger(to.id)}}

\* setRelation(from, t1) and then setRelation(from, t2) succeeded, t1 was
\* related to `from` when the second call was made
C27_Witness ==
    /\ IsSecondSet
    /\ rpc = "done"
    /\ relationOfCall.isManyToMany
    /\ castToInteger(request.changes[2].to.id) \in relatedAtCall
    /\ castToInteger(to.id) \notin relatedAtCall
    /\ castToInteger(request.changes[2].to.id) \in relatedNow

\* C27 as stated: after the second call the array saved holds both targets
\* and the targets related before the call are still related
C27_AsStated ==
    IsSecondSet /\ rpc = "done" /\ relationOfCall.isManyToMany =>
        /\ {castToInteger(to.id), castToInteger(request.changes[2].to.id)}
              \subseteq Range(loaded.assigned)
        /\ relatedAtCall \subseteq relatedNow


\* the changes of the call that are held in a foreign-key column, and
\* those held in a junction table
ColumnChanges ==
    {i \in DOMAIN request.changes : ~relationOf(schema, request.changes[i]).isManyToMany}
JunctionChanges ==
    {i \in DOMAIN request.changes : relationOf(schema, request.changes[i]).isManyToMany}

\* the owning row of a change, the column that holds its key, and the row
\* the change names as the other entity of the pair
ownerOf(c) ==
    IF relationOf(schema, c).isOwning
    THEN [table |-> c.from.type, id |-> castToInteger(c.from.id),
          column |-> relationOf(schema, c).propertyName,
          other |-> castToInteger(c.to.id)]
    ELSE [table |-> c.to.type, id |-> castToInteger(c.to.id),
          column |-> relationOf(schema, c).inverseSidePropertyPath,
          other |-> castToInteger(c.from.id)]

\* whether the i-th change is about the key in `column` of the row
Names(i, name, id, column) ==
    /\ ownerOf(request.changes[i]).table = name
    /\ ownerOf(request.changes[i]).id = id
    /\ ownerOf(request.changes[i]).column = column

\* C28: when removeRelation succeeds, the foreign key of every owning row
\* that a change names is NULL, whatever row it referenced before, and
\* every other foreign key is as it was when the call was made.
C28_NamedKeysAreNulled ==
    IsRemoveCall /\ rpc = "done" =>
        \A name \in {"A", "B", "C"} : \A id \in DOMAIN tables[name] :
            \A column \in DOMAIN tables[name][id] :
                tables[name][id][column] =
                    IF \E i \in ColumnChanges : Names(i, name, id, column)
                    THEN NULL
                    ELSE request.tablesAtCall[name][id][column]

\* a call succeeded that names an owning row whose key referenced another
\* row than the one of the pair
C28_Witness ==
    /\ IsRemoveCall
    /\ rpc = "done"
    /\ \E i \in ColumnChanges :
          LET owner == ownerOf(request.changes[i])
          IN  /\ request.tablesAtCall[owner.table][owner.id][owner.column]
                    \notin {NULL, owner.other}
              /\ tables[owner.table][owner.id][owner.column] = NULL

\* C28 as stated: a key is nulled only when a change names its row and
\* the row it references
C28_AsStated ==
    IsRemoveCall /\ rpc = "done" =>
        \A name \in {"A", "B", "C"} : \A id \in DOMAIN tables[name] :
            \A column \in DOMAIN tables[name][id] :
                tables[name][id][column] =
                    IF \E i \in ColumnChanges :
                          /\ Names(i, name, id, column)
                          /\ ownerOf(request.changes[i]).other
                                = request.tablesAtCall[name][id][column]
                    THEN NULL
                    ELSE request.tablesAtCall[name][id][column]

\* the junction table of a change, and the first change of the call that
\* has the same junction table
junctionOfChange(i) == junctionOf(relationOf(schema, request.changes[i]))
firstOfJunction(i) ==
    CHOOSE j \in JunctionChanges :
        /\ junctionOfChange(j) = junctionOfChange(i)
        /\ \A k \in JunctionChanges : junctionOfChange(k) = junctionOfChange(i) => j <= k

\* the row of the junction table that relates from and to of a change
rowOfChange(c) ==
    [k \in {junctionKeyOf(c.from.type), junctionKeyOf(c.to.type)} |->
        IF k = junctionKeyOf(c.from.type)
        THEN castToInteger(c.from.id) ELSE castToInteger(c.to.id)]

\* the same ids under the keys of the other direction
rowOfChangeReversed(c) ==
    [k \in {junctionKeyOf(c.from.type), junctionKeyOf(c.to.type)} |->
        IF k = junctionKeyOf(c.from.type)
        THEN castToInteger(c.to.id) ELSE castToInteger(c.from.id)]

deletedFrom(junction) == request.tablesAtCall[junction] \ tables[junction]

\* C29: when removeRelation succeeds, the junction rows deleted are the
\* rows of the changes that have the direction of the first change of
\* their junction table, and, for a change given in the other direction,
\* the row with the two ids exchanged; no other junction row is deleted
\* and none is added.
C29_DeletedByKeysOfFirstChange ==
    IsRemoveCall /\ rpc = "done" =>
        \A junction \in {"AB", "BC"} :
            /\ tables[junction] \subseteq request.tablesAtCall[junction]
            /\ deletedFrom(junction) =
                  request.tablesAtCall[junction] \cap
                  { IF request.changes[i].from.type
                          = request.changes[firstOfJunction(i)].from.type
                    THEN rowOfChange(request.changes[i])
                    ELSE rowOfChangeReversed(request.changes[i]) :
                      i \in {k \in JunctionChanges : junctionOfChange(k) = junction} }

\* a call succeeded with two changes of one junction table in opposite
\* directions, and the row of the second change was there to delete
C29_Witness ==
    /\ IsRemoveCall
    /\ rpc = "done"
    /\ JunctionChanges = {1, 2}
    /\ request.changes[1].from.type = request.changes[2].to.type
    /\ rowOfChange(request.changes[2]) \in request.tablesAtCall[junctionOfChange(2)]
    /\ rowOfChange(request.changes[1]) \notin tables[junctionOfChange(1)]

\* C29 as stated: the rows deleted are exactly the rows of the changes
C29_AsStated ==
    IsRemoveCall /\ rpc = "done" =>
        \A junction \in {"AB", "BC"} :
            deletedFrom(junction) =
                request.tablesAtCall[junction] \cap
                { rowOfChange(request.changes[i]) :
                    i \in {k \in JunctionChanges : junctionOfChange(k) = junction} }


(***************************************************************************)
(* Claims about the size of the batches and the checker functions.         *)
(***************************************************************************)
\* the checker functions that the migration creates: for (let i = 1;
\* i <= MAX_FN_ARGUMENTS; i++) CREATE OR REPLACE FUNCTION getFnDef(i),
\* a function of a text and i int arguments
installedCheckers ==
    {[name |-> checkerFnName(i), ints |-> i] : i \in 1..MAX_FN_ARGUMENTS}

Probes(p) == SelectSeq(log[p], LAMBDA e : e.kind = "probe")

\* whether a name ends with _n<k>
EndsWithArity(name, k) ==
    /\ Len(name) > Len(NumToString(k)) + 2
    /\ SubSeq(name, Len(name) - Len(NumToString(k)) - 1, Len(name))
          = <<"_", "n">> \o NumToString(k)

\* C30: the probes of a fetch carry, in order, the consecutive slices of
\* the deduplicated id list, each of 1 to 99 ids, and when the fetch has
\* gone through its batches the slices cover the list, so that every id is
\* in exactly one batch; the probe of a batch of k ids calls the checker
\* execute_if_exists_n<k>, which is among the functions of the migration
\* and takes k int arguments, with the k ids and a stored-function name
\* that ends with _n<k>.
C30_BatchSizesHaveCheckers ==
    \A p \in Procs :
        pc[p] \notin {"off", "idle", "threw"} =>
            /\ Cardinality(Range(uniqIds[p])) = Len(uniqIds[p])
            /\ \A j \in DOMAIN Probes(p) :
                  LET args == Probes(p)[j].args
                      k == Len(args)
                  IN  /\ k \in 1..99
                      /\ \A i \in 1..k :
                            args[i] = uniqIds[p][(j - 1) * MAX_FN_ARGUMENTS + i]
                      /\ (j < Len(Probes(p)) => k = MAX_FN_ARGUMENTS)
                      /\ Probes(p)[j].via = checkerFnName(k)
                      /\ EndsWithArity(Probes(p)[j].via, k)
                      /\ [name |-> Probes(p)[j].via, ints |-> k] \in installedCheckers
                      /\ EndsWithArity(Probes(p)[j].fn, k)
            /\ pc[p] \in {"fetched", "commit", "done"} /\ uniqIds[p] # <<>> =>
                  (Len(Probes(p)) - 1) * MAX_FN_ARGUMENTS
                     + Len(Probes(p)[Len(Probes(p))].args) = Len(uniqIds[p])

\* a fetch of duplicated ids went through a full batch and a shorter one
C30_Witness ==
    \E p \in Procs :
        /\ pc[p] = "done"
        /\ Len(uniqIds[p]) < Len(numericIds[p])
        /\ Len(Probes(p)) = 2
        /\ Len(Probes(p)[1].args) = MAX_FN_ARGUMENTS
        /\ Len(Probes(p)[2].args) \in 1..(MAX_FN_ARGUMENTS - 1)

====
